---- MODULE Spec2Model ----
(***************************************************************************)
(* Model of ble-gw-auto-parser: the MKGW4 TLV frame decoder (parser.go),   *)
(* the HTTP handler handleAuto in its two versions (the merge-and-publish  *)
(* version and the UpsertAuto version, both in storage/storage.go), the    *)
(* idempotency receipts, the message rows and the Pub/Sub publish.         *)
(*                                                                         *)
(* Strings are sequences of one-character strings, byte slices are         *)
(* sequences of integers 0..255, a nil pointer is the empty sequence and   *)
(* a non-nil pointer to x is <<x>>.                                        *)
(***************************************************************************)
EXTENDS Integers, Sequences, FiniteSets, TLC

(***************************************************************************)
(* Pointers                                                                *)
(***************************************************************************)
Nil == <<>>

Some(x) == <<x>>

(***************************************************************************)
(* Characters and strings (package strings, encoding/hex)                  *)
(***************************************************************************)
LowerLetters == <<"a","b","c","d","e","f","g","h","i","j","k","l","m",
                  "n","o","p","q","r","s","t","u","v","w","x","y","z">>

UpperLetters == <<"A","B","C","D","E","F","G","H","I","J","K","L","M",
                  "N","O","P","Q","R","S","T","U","V","W","X","Y","Z">>

HexUpper == <<"0","1","2","3","4","5","6","7","8","9","A","B","C","D","E","F">>

Separators == {" ", ":", "-", "."}

IndexOf(seq, c) == CHOOSE k \in 1..Len(seq) : seq[k] = c

InSeq(seq, c) == \E k \in 1..Len(seq) : seq[k] = c

UpperCh(c) == IF InSeq(LowerLetters, c) THEN UpperLetters[IndexOf(LowerLetters, c)] ELSE c

LowerCh(c) == IF InSeq(UpperLetters, c) THEN LowerLetters[IndexOf(UpperLetters, c)] ELSE c

ToUpper(s) == [k \in 1..Len(s) |-> UpperCh(s[k])]

ToLower(s) == [k \in 1..Len(s) |-> LowerCh(s[k])]

RECURSIVE TrimLeft(_)
TrimLeft(s) == IF s # <<>> /\ Head(s) = " " THEN TrimLeft(Tail(s)) ELSE s

RECURSIVE TrimRight(_)
TrimRight(s) ==
    IF s # <<>> /\ s[Len(s)] = " " THEN TrimRight(SubSeq(s, 1, Len(s) - 1)) ELSE s

TrimSpace(s) == TrimRight(TrimLeft(s))

HasPrefix(s, p) == Len(s) >= Len(p) /\ SubSeq(s, 1, Len(p)) = p

TrimPrefix(s, p) == IF HasPrefix(s, p) THEN SubSeq(s, Len(p) + 1, Len(s)) ELSE s

\* strings.NewReplacer(" ", "", ":", "", "-", "", ".", "").Replace
StripSeparators(s) == SelectSeq(s, LAMBDA c : c \notin Separators)

HexVal(c) == IndexOf(HexUpper, UpperCh(c)) - 1

\* hex.DecodeString: an error for an odd length or a character that is no hex digit
HexDecodeOk(h) ==
    /\ Len(h) % 2 = 0
    /\ \A k \in 1..Len(h) : InSeq(HexUpper, UpperCh(h[k]))

HexDecodeString(h) == [k \in 1..(Len(h) \div 2) |-> 16 * HexVal(h[2*k - 1]) + HexVal(h[2*k])]

looksLikeHex(s) ==
    /\ s # <<>>
    /\ \A k \in 1..Len(s) : InSeq(HexUpper, UpperCh(s[k])) \/ s[k] \in Separators

SelfPrefix == <<"s","e","l","f","/">>

JsonFlag == <<"j","s","o","n">>

(***************************************************************************)
(* parser.go: big-endian readers                                           *)
(***************************************************************************)
\* the two bytes read low byte first
be16LittleEndian(b, i) == b[i + 1] + b[i + 2] * 256

\* be16 of the two bytes of b starting at 0-based offset i
be16(b, i) == b[i + 1] * 256 + b[i + 2]

\* A value of 0..2^32-1 held in an int64 is kept as its two 16-bit halves,
\* [hi, lo] standing for hi * 65536 + lo: the model checker's integers are 32 bits wide.
Wide(hi, lo) == [hi |-> hi, lo |-> lo]

Zero32 == Wide(0, 0)

\* be32 as int64 (no wrap: the bytes are widened to int64 before the shifts)
be32(b, i) == Wide(be16(b, i), be16(b, i + 2))

\* the low 31 bits only: the sign bit is lost
Int32NoSign(w) == (w.hi % 32768) * 65536 + w.lo

\* the int32 arithmetic of the lon/lat branch: bit 31 is the sign
Int32(w) == IF w.hi >= 32768 THEN (w.hi - 65536) * 65536 + w.lo
            ELSE w.hi * 65536 + w.lo

\* time.Time as whole seconds since the epoch and the milliseconds within the second
Unix(sec) == [s |-> sec, ms |-> 0]

\* time.UnixMilli for 0 <= x < 2^31
UnixMilli(x) == [s |-> Wide((x \div 1000) \div 65536, (x \div 1000) % 65536), ms |-> x % 1000]

Slice(b, i, ln) == SubSeq(b, i + 1, i + ln)

(***************************************************************************)
(* parser.go: parseStatusTLV                                               *)
(***************************************************************************)
EmptyStatus ==
    [NetworkType |-> <<>>, CSQ |-> 0, BattmV |-> 0, AxisXmg |-> 0, AxisYmg |-> 0,
     AxisZmg |-> 0, AccStatus |-> 0, IMEI |-> <<>>, ICCID |-> <<>>]

StatusField(st, tag, body, i, ln) ==
    CASE tag = 1 -> [st EXCEPT !.NetworkType = Slice(body, i, ln)]
      [] tag = 2 /\ ln >= 1 -> [st EXCEPT !.CSQ = body[i + 1]]
      [] tag = 3 /\ ln >= 2 -> [st EXCEPT !.BattmV = be16(body, i)]
      [] tag = 4 /\ ln >= 3 -> [st EXCEPT !.AxisXmg = body[i + 1],
                                          !.AxisYmg = body[i + 2],
                                          !.AxisZmg = body[i + 3]]
      [] tag = 5 /\ ln >= 1 -> [st EXCEPT !.AccStatus = body[i + 1]]
      [] tag = 6 -> [st EXCEPT !.IMEI = Slice(body, i, ln)]
      [] OTHER -> st

\* a timestamp read from any record of 4 bytes or more
TimestampFieldAnyTag(ts, tag, body, i, ln) ==
    IF ln >= 4 THEN be32(body, i) ELSE ts

\* a timestamp record that is too short clears the timestamp
TimestampFieldShortResets(ts, tag, body, i, ln) ==
    IF tag = 0 THEN (IF ln >= 4 THEN be32(body, i) ELSE Zero32) ELSE ts

\* the first timestamp record wins: a later one is ignored
TimestampFieldFirstWins(ts, tag, body, i, ln) ==
    IF tag = 0 /\ ln >= 4 /\ ts = Zero32 THEN be32(body, i) ELSE ts

TimestampField(ts, tag, body, i, ln) ==
    IF tag = 0 /\ ln >= 4 THEN be32(body, i) ELSE ts

RECURSIVE StatusLoop(_, _, _, _)
StatusLoop(body, i, st, ts) ==
    IF ~(i < Len(body)) THEN [err |-> FALSE, val |-> Some(st), ts |-> ts]
    ELSE IF i + 1 + 2 > Len(body) THEN [err |-> TRUE, val |-> Nil, ts |-> Zero32]
    ELSE LET tag == body[i + 1]
             ln  == be16(body, i + 1)
             j   == i + 3
         IN  IF j + ln > Len(body) THEN [err |-> TRUE, val |-> Nil, ts |-> Zero32]
             ELSE StatusLoop(body, j + ln,
                             StatusField(st, tag, body, j, ln),
                             TimestampField(ts, tag, body, j, ln))

parseStatusTLV(body) == StatusLoop(body, 0, EmptyStatus, Zero32)

(***************************************************************************)
(* parser.go: parseFixTLV                                                  *)
(***************************************************************************)
fixModeNames == <<"Periodic", "Motion", "Downlink">>

fixResultNames == <<"GPS fix success", "LBS fix success", "Interrupted by Downlink",
                    "GPS serial port is used", "GPS aiding timeout", "GPS timeout",
                    "PDOP limit", "LBS failure">>

\* Longitude and Latitude are kept as the int32 raw value (degrees * 1e7);
\* CI is an int64 holding 0..2^32-1
EmptyFix ==
    [FixMode |-> "", FixResult |-> "", Longitude |-> 0, Latitude |-> 0,
     TacLac |-> 0, CI |-> Zero32]

FixField(f, tag, body, i, ln) ==
    CASE tag = 1 /\ ln >= 1 /\ body[i + 1] < Len(fixModeNames) ->
            [f EXCEPT !.FixMode = fixModeNames[body[i + 1] + 1]]
      [] tag = 2 /\ ln >= 1 /\ body[i + 1] < Len(fixResultNames) ->
            [f EXCEPT !.FixResult = fixResultNames[body[i + 1] + 1]]
      [] tag = 3 /\ ln >= 8 ->
            [f EXCEPT !.Longitude = Int32(be32(body, i)),
                      !.Latitude = Int32(be32(body, i + 4))]
      [] tag = 4 /\ ln >= 6 ->
            [f EXCEPT !.CI = be32(body, i), !.TacLac = be16(body, i + 4)]
      [] OTHER -> f

RECURSIVE FixLoop(_, _, _, _)
FixLoop(body, i, f, ts) ==
    IF ~(i < Len(body)) THEN [err |-> FALSE, val |-> Some(f), ts |-> ts]
    ELSE IF i + 1 + 2 > Len(body) THEN [err |-> TRUE, val |-> Nil, ts |-> Zero32]
    ELSE LET tag == body[i + 1]
             ln  == be16(body, i + 1)
             j   == i + 3
         IN  IF j + ln > Len(body) THEN [err |-> TRUE, val |-> Nil, ts |-> Zero32]
             ELSE FixLoop(body, j + ln,
                          FixField(f, tag, body, j, ln),
                          TimestampField(ts, tag, body, j, ln))

parseFixTLV(body) == FixLoop(body, 0, EmptyFix, Zero32)

(***************************************************************************)
(* parser.go: DecodeMKGW4Auto.  now is time.Now().Unix().                  *)
(* The result is [auto, ok, err]: auto is Nil or <<Auto>>.                 *)
(***************************************************************************)
Flag3004 == <<"3","0","0","4">>

Flag3089 == <<"3","0","8","9">>

Flag30B1 == <<"3","0","B","1">>

\* a decoder that reads every frame with both schemas
DecodeMKGW4AutoBothSchemas(flagHex, bodyHex, now) ==
    LET flag == ToUpper(TrimSpace(flagHex))
        h    == StripSeparators(ToUpper(TrimSpace(bodyHex)))
    IN  IF ~HexDecodeOk(h) THEN [auto |-> Nil, ok |-> FALSE, err |-> TRUE]
        ELSE LET ps == parseStatusTLV(HexDecodeString(h))
                 pf == parseFixTLV(HexDecodeString(h))
             IN  IF ps.err THEN [auto |-> Nil, ok |-> TRUE, err |-> TRUE]
                 ELSE [auto |-> Some([Flag |-> ToLower(flag),
                                      Timestamp |-> IF ps.ts = Zero32 THEN now ELSE ps.ts,
                                      Hex |-> h, Status |-> ps.val, Fix |-> pf.val]),
                       ok |-> TRUE, err |-> FALSE]

DecodeMKGW4Auto(flagHex, bodyHex, now) ==
    LET flag == ToUpper(TrimSpace(flagHex))
        h    == StripSeparators(ToUpper(TrimSpace(bodyHex)))
    IN  IF ~HexDecodeOk(h) THEN [auto |-> Nil, ok |-> FALSE, err |-> TRUE]
        ELSE LET b == HexDecodeString(h)
             IN  IF flag = Flag3004 THEN
                     LET p == parseStatusTLV(b)
                     IN  IF p.err THEN [auto |-> Nil, ok |-> TRUE, err |-> TRUE]
                         ELSE [auto |-> Some([Flag |-> ToLower(flag),
                                              Timestamp |-> IF p.ts = Zero32 THEN now ELSE p.ts,
                                              Hex |-> h, Status |-> p.val, Fix |-> Nil]),
                               ok |-> TRUE, err |-> FALSE]
                 ELSE IF flag = Flag3089 \/ flag = Flag30B1 THEN
                     LET p == parseFixTLV(b)
                     IN  IF p.err THEN [auto |-> Nil, ok |-> TRUE, err |-> TRUE]
                         ELSE [auto |-> Some([Flag |-> ToLower(flag),
                                              Timestamp |-> IF p.ts = Zero32 THEN now ELSE p.ts,
                                              Hex |-> h, Status |-> Nil, Fix |-> p.val]),
                               ok |-> TRUE, err |-> FALSE]
                 ELSE [auto |-> Nil, ok |-> FALSE, err |-> FALSE]

(***************************************************************************)
(* parser.go: ParseMAC12.  fmt.Sscanf(pair, "%02X", &v) skips leading      *)
(* spaces, then needs one hex digit and takes hex digits up to the width   *)
(* of 2 characters (the spaces count in the width); what follows the       *)
(* number is not looked at.                                                *)
(***************************************************************************)
ScanHexPair(p) ==
    LET q == TrimLeft(p)
    IN  IF q = <<>> \/ ~InSeq(HexUpper, UpperCh(q[1])) THEN [err |-> TRUE, v |-> 0]
        ELSE IF Len(q) >= 2 /\ InSeq(HexUpper, UpperCh(q[2]))
             THEN [err |-> FALSE, v |-> 16 * HexVal(q[1]) + HexVal(q[2])]
             ELSE [err |-> FALSE, v |-> HexVal(q[1])]

ParseMAC12(str) ==
    LET s == ToUpper(TrimSpace(str))
    IN  IF Len(s) # 12 THEN [err |-> TRUE, out |-> <<>>]
        ELSE LET pairs == [k \in 1..6 |-> ScanHexPair(SubSeq(s, 2*k - 1, 2*k))]
             IN  IF \E k \in 1..6 : pairs[k].err THEN [err |-> TRUE, out |-> <<>>]
                 ELSE [err |-> FALSE, out |-> [k \in 1..6 |-> pairs[k].v]]

(***************************************************************************)
(* storage.go: the idempotency receipts (table gw_auto_receipts)           *)
(***************************************************************************)
\* INSERT ... ON CONFLICT (idempotency_key) DO NOTHING, one atomic statement;
\* dup is RowsAffected() = 0
receiptsSeenNeverDup(rcpts, key) == [receipts |-> rcpts \cup {key}, dup |-> FALSE]

receiptsSeenNoInsert(rcpts, key) == [receipts |-> rcpts, dup |-> key \in rcpts]

\* the insert takes the place of the receipts that were there
receiptsSeenReplace(rcpts, key) == [receipts |-> {key}, dup |-> key \in rcpts]

receiptsSeen(rcpts, key) == [receipts |-> rcpts \cup {key}, dup |-> key \in rcpts]

(***************************************************************************)
(* storage.go: Store.UpdateGatewayParsedAndDenormByID (table               *)
(* public.gateway_message).  A column is Nil (NULL) or <<value>>.          *)
(***************************************************************************)
MergeParams(st, fx) ==
    [latitude     |-> IF fx # Nil THEN Some(fx[1].Latitude) ELSE Nil,
     longitude    |-> IF fx # Nil THEN Some(fx[1].Longitude) ELSE Nil,
     tac          |-> IF fx # Nil THEN Some(fx[1].TacLac) ELSE Nil,
     cell_id      |-> IF fx # Nil THEN Some(fx[1].CI) ELSE Nil,
     network_type |-> IF st # Nil /\ st[1].NetworkType # <<>>
                      THEN Some(st[1].NetworkType) ELSE Nil,
     csq          |-> IF st # Nil THEN Some(st[1].CSQ) ELSE Nil,
     batt_mv      |-> IF st # Nil THEN Some(st[1].BattmV) ELSE Nil,
     axis_x_mg    |-> IF st # Nil THEN Some(st[1].AxisXmg) ELSE Nil,
     axis_y_mg    |-> IF st # Nil THEN Some(st[1].AxisYmg) ELSE Nil,
     axis_z_mg    |-> IF st # Nil THEN Some(st[1].AxisZmg) ELSE Nil,
     acc_status   |-> IF st # Nil THEN Some(st[1].AccStatus) ELSE Nil,
     \* line 82-84: a non-empty ICCID is assigned to imei; iccid stays nil
     imei         |-> IF st # Nil /\ st[1].ICCID # <<>> THEN Some(st[1].ICCID)
                      ELSE IF st # Nil /\ st[1].IMEI # <<>> THEN Some(st[1].IMEI)
                      ELSE Nil,
     iccid        |-> Nil]

\* the UPDATE ... WHERE id = $1 applied to one row
MergedRow(row, parser, parsed, deviceTs, st, fx) ==
    LET p == MergeParams(st, fx)
    IN  [row EXCEPT !.parser = parser,
                    !.parser_json = Some(parsed),
                    !.ts_device = IF deviceTs # Nil THEN deviceTs[1] ELSE @,
                    !.latitude = p.latitude,
                    !.longitude = p.longitude,
                    !.tac = p.tac,
                    !.cell_id = p.cell_id,
                    !.network_type = p.network_type,
                    !.csq = p.csq,
                    !.batt_mv = p.batt_mv,
                    !.axis_x_mg = p.axis_x_mg,
                    !.axis_y_mg = p.axis_y_mg,
                    !.axis_z_mg = p.axis_z_mg,
                    !.acc_status = p.acc_status,
                    !.imei = p.imei,
                    !.iccid = p.iccid]

\* rws maps a row id to Nil (no such row) or <<row>>; the result is "ok" or
\* "notfound" (pgx.ErrNoRows when RowsAffected() = 0)
UpdateGatewayParsedAndDenormByID(rws, id, parser, parsed, deviceTs, st, fx) ==
    IF id \in DOMAIN rws /\ rws[id] # Nil
    THEN [rows |-> [rws EXCEPT ![id] = Some(MergedRow(rws[id][1], parser, parsed,
                                                      deviceTs, st, fx))],
          res |-> "ok"]
    ELSE [rows |-> rws, res |-> "notfound"]

(***************************************************************************)
(* unnamed/part_000: Store.UpsertAuto (table gateway_auto_message)         *)
(***************************************************************************)
NaturalKey(row) == <<row.gw_mac, row.flag, row.ts_device, row.payload_hex>>

AutoRow(gwHW, gwMAC, topic, flag, payloadHex, deviceTS, st, fx) ==
    [gw_hw |-> gwHW, gw_mac |-> gwMAC, topic |-> topic, flag |-> flag,
     ts_device |-> deviceTS, payload_hex |-> payloadHex,
     network_type |-> IF st # Nil THEN Some(st[1].NetworkType) ELSE Nil,
     csq          |-> IF st # Nil THEN Some(st[1].CSQ) ELSE Nil,
     batt_mv      |-> IF st # Nil THEN Some(st[1].BattmV) ELSE Nil,
     axis_x_mg    |-> IF st # Nil THEN Some(st[1].AxisXmg) ELSE Nil,
     axis_y_mg    |-> IF st # Nil THEN Some(st[1].AxisYmg) ELSE Nil,
     axis_z_mg    |-> IF st # Nil THEN Some(st[1].AxisZmg) ELSE Nil,
     acc_status   |-> IF st # Nil THEN Some(st[1].AccStatus) ELSE Nil,
     imei         |-> IF st # Nil THEN Some(st[1].IMEI) ELSE Nil,
     iccid        |-> IF st # Nil THEN Some(st[1].ICCID) ELSE Nil,
     longitude    |-> IF fx # Nil THEN Some(fx[1].Longitude) ELSE Nil,
     latitude     |-> IF fx # Nil THEN Some(fx[1].Latitude) ELSE Nil,
     tac_lac      |-> IF fx # Nil THEN Some(fx[1].TacLac) ELSE Nil,
     ci           |-> IF fx # Nil THEN Some(fx[1].CI) ELSE Nil]

\* INSERT ... ON CONFLICT (...) DO UPDATE: the new row takes the place of the old
UpsertAutoOverwrite(arows, gwHW, gwMAC, topic, flag, payloadHex, deviceTS, st, fx) ==
    LET new == AutoRow(gwHW, gwMAC, topic, flag, payloadHex, deviceTS, st, fx)
    IN  {old \in arows : NaturalKey(old) # NaturalKey(new)} \cup {new}

\* INSERT ... ON CONFLICT (gw_mac, flag, ts_device, payload_hex) DO NOTHING
UpsertAuto(arows, gwHW, gwMAC, topic, flag, payloadHex, deviceTS, st, fx) ==
    LET new == AutoRow(gwHW, gwMAC, topic, flag, payloadHex, deviceTS, st, fx)
    IN  IF \E old \in arows : NaturalKey(old) = NaturalKey(new) THEN arows
        ELSE arows \cup {new}

(***************************************************************************)
(* storage.go: the request envelope and what the handler computes from it  *)
(* between the idempotency check and the first store write (CPU only).     *)
(***************************************************************************)
MKGW4 == <<"M","K","G","W","4">>

deriveHeaderFlag(hexStr) ==
    LET clean == ToUpper(StripSeparators(hexStr))
    IN  IF Len(clean) < 6 \/ SubSeq(clean, 1, 2) # <<"E","F">> THEN <<>>
        ELSE SubSeq(clean, 3, 6)

\* What a request that ends at validation with 400 leaves in its locals
Rejected ==
    [status |-> 400, gw_hw |-> <<>>, gw_mac |-> <<>>, macBytes |-> <<>>,
     ts |-> UnixMilli(0),
     flag |-> <<>>, payload |-> <<>>, st |-> Nil, fx |-> Nil,
     decoded |-> FALSE, decErr |-> FALSE]

\* lines 405-408: DecodeMKGW4Auto gave no frame (hex error, truncated TLV): the
\* body is kept unparsed, upper-cased, and the handler goes on
DecodeFailedFatal(asIs, flag0, payloadHex, d) == Rejected

DecodeFailed(asIs, flag0, payloadHex, d) ==
    [asIs EXCEPT !.flag = flag0,
                 !.payload = ToUpper(payloadHex),
                 !.decoded = TRUE,
                 !.decErr = d.err]

\* the timestamp of a decoded frame always takes the place of the envelope's
BodyPublishFrameTime(body, now) ==
    IF body = Nil THEN Rejected
    ELSE
    LET env   == body[1]
        gwhw  == ToUpper(TrimSpace(env.GWHW))
        gwmac == ToUpper(TrimSpace(env.GWMAC))
        flag0 == TrimSpace(env.Flag)
        bare  == ToUpper(TrimSpace(TrimPrefix(ToLower(flag0), SelfPrefix)))
        asIs  == [status |-> 0, gw_hw |-> gwhw, gw_mac |-> gwmac, macBytes |-> <<>>,
                  ts |-> UnixMilli(env.DeviceTsMs),
                  flag |-> IF flag0 = <<>> THEN JsonFlag ELSE flag0,
                  payload |-> env.PayloadHex, st |-> Nil, fx |-> Nil,
                  decoded |-> FALSE, decErr |-> FALSE]
    IN  IF gwhw = <<>> \/ gwmac = <<>> \/ env.PayloadHex = <<>> THEN Rejected
        ELSE IF Len(gwmac) # 12 THEN Rejected
        ELSE IF gwhw = MKGW4 /\ looksLikeHex(env.PayloadHex)
                /\ bare \in {Flag3004, Flag3089, Flag30B1}
        THEN LET d == DecodeMKGW4Auto(bare, env.PayloadHex, now)
             IN  IF d.ok /\ d.auto # Nil
                 THEN LET auto == d.auto[1]
                      IN  [asIs EXCEPT
                             !.flag = IF flag0 = <<>> THEN SelfPrefix \o ToUpper(auto.Flag)
                                      ELSE flag0,
                             !.payload = ToUpper(auto.Hex),
                             !.ts = IF auto.Timestamp # Zero32
                                    THEN Unix(auto.Timestamp) ELSE UnixMilli(env.DeviceTsMs),
                             !.st = auto.Status,
                             !.fx = auto.Fix,
                             !.decoded = TRUE]
                 ELSE DecodeFailed(asIs, flag0, env.PayloadHex, d)
        ELSE asIs

\* handleAuto (merge-and-publish version), lines 335-423.
\* decoded says that DecodeMKGW4Auto was called.  device_ts_ms, ts.UnixMilli(),
\* is kept as the instant ts itself.
BodyPublish(body, now) ==
    IF body = Nil THEN Rejected
    ELSE
    LET env   == body[1]
        gwhw  == ToUpper(TrimSpace(env.GWHW))
        gwmac == ToUpper(TrimSpace(env.GWMAC))
        flag0 == TrimSpace(env.Flag)
        bare  == ToUpper(TrimSpace(TrimPrefix(ToLower(flag0), SelfPrefix)))
        asIs  == [status |-> 0, gw_hw |-> gwhw, gw_mac |-> gwmac, macBytes |-> <<>>,
                  ts |-> UnixMilli(env.DeviceTsMs),
                  flag |-> IF flag0 = <<>> THEN JsonFlag ELSE flag0,
                  payload |-> env.PayloadHex, st |-> Nil, fx |-> Nil,
                  decoded |-> FALSE, decErr |-> FALSE]
    IN  IF gwhw = <<>> \/ gwmac = <<>> \/ env.PayloadHex = <<>> THEN Rejected
        ELSE IF Len(gwmac) # 12 THEN Rejected
        ELSE IF gwhw = MKGW4 /\ looksLikeHex(env.PayloadHex)
                /\ bare \in {Flag3004, Flag3089, Flag30B1}
        THEN LET d == DecodeMKGW4Auto(bare, env.PayloadHex, now)
             IN  IF d.ok /\ d.auto # Nil
                 THEN LET auto == d.auto[1]
                      IN  [asIs EXCEPT
                             !.flag = IF flag0 = <<>> THEN SelfPrefix \o ToUpper(auto.Flag)
                                      ELSE flag0,
                             !.payload = ToUpper(auto.Hex),
                             !.ts = IF auto.Timestamp # Zero32 /\ env.DeviceTsMs = 0
                                    THEN Unix(auto.Timestamp) ELSE UnixMilli(env.DeviceTsMs),
                             !.st = auto.Status,
                             !.fx = auto.Fix,
                             !.decoded = TRUE]
                 ELSE DecodeFailed(asIs, flag0, env.PayloadHex, d)
        ELSE asIs

\* The UpsertAuto version calls a one-argument DecodeMKGW4Auto(frame) that finds
\* the frame type in the frame itself; that decoder is not in the sources.  It
\* is modelled as the TLV decoder above applied with any frame type.
LegacyDecodeResults(payloadHex, now) ==
    { DecodeMKGW4Auto(f, payloadHex, now) : f \in {Flag3004, Flag3089, <<>>} }

\* handleAuto (UpsertAuto version), lines 720-805; d is the decoder's result
BodyUpsert(body, now, d) ==
    IF body = Nil THEN Rejected
    ELSE
    LET env  == body[1]
        mac  == ParseMAC12(ToUpper(env.GWMAC))
        asIs == [status |-> 0, gw_hw |-> env.GWHW, gw_mac |-> env.GWMAC,
                 macBytes |-> mac.out, ts |-> UnixMilli(env.DeviceTsMs),
                 flag |-> IF env.Flag = <<>> THEN JsonFlag ELSE env.Flag,
                 payload |-> env.PayloadHex, st |-> Nil, fx |-> Nil,
                 decoded |-> FALSE, decErr |-> FALSE]
    IN  IF env.GWHW = <<>> \/ env.GWMAC = <<>> \/ env.PayloadHex = <<>> THEN Rejected
        ELSE IF mac.err THEN Rejected
        ELSE IF ToUpper(env.GWHW) = MKGW4 /\ looksLikeHex(env.PayloadHex)
        THEN IF d.ok /\ d.auto # Nil
             THEN LET auto == d.auto[1]
                  IN  [asIs EXCEPT
                         !.flag = IF env.Flag = <<>> THEN ToUpper(auto.Flag) ELSE env.Flag,
                         !.payload = ToUpper(auto.Hex),
                         !.ts = IF auto.Timestamp # Zero32 /\ env.DeviceTsMs = 0
                                THEN Unix(auto.Timestamp) ELSE UnixMilli(env.DeviceTsMs),
                         !.st = auto.Status,
                         !.fx = auto.Fix,
                         !.decoded = TRUE]
             ELSE [asIs EXCEPT
                         !.flag = IF env.Flag = <<>> THEN deriveHeaderFlag(env.PayloadHex)
                                  ELSE env.Flag,
                         !.payload = ToUpper(env.PayloadHex),
                         !.decoded = TRUE,
                         !.decErr = d.err]
        ELSE asIs

\* lines 426-465: the parsed view written by the merge
ParsedJSON(l, topic) ==
    [gw_hw |-> l.gw_hw, gw_mac |-> l.gw_mac, flag |-> l.flag, topic |-> topic,
     device_ts_ms |-> l.ts, source |-> "ble-gw-auto-parser", kind |-> "gateway_self",
     version |-> 1, status |-> l.st, fix |-> l.fx]

ParserName(l) == IF l.gw_hw = MKGW4 THEN "mkgw4:auto" ELSE "gw_json:auto"

\* lines 474-485: the published event
OutEvent(l, topic, rowId) ==
    [type |-> "gateway_self", gw_hw |-> l.gw_hw, gw_mac |-> l.gw_mac, flag |-> l.flag,
     topic |-> topic, device_ts_ms |-> l.ts, payload |-> l.payload, row_id |-> rowId,
     parsed_status |-> l.st, parsed_fix |-> l.fx]

(***************************************************************************)
(* Requests: the inputs the model draws from                               *)
(***************************************************************************)
NumReqs == 2

Reqs == 1..NumReqs

PublishWaitSecs == 5

Token == <<"t","o","k">>

BadToken == <<"b","a","d">>

Keys == <<  <<"k","1">>, <<"k","2">>, <<"k","3">>  >>

\* Keys are opaque: the first request uses the first key, and request r one of
\* the first r keys
KeysOf(r) == {Keys[n] : n \in 1..(IF r < Len(Keys) THEN r ELSE Len(Keys))}

MacOK == <<"C","C","E","0","1","B","A","2","0","6","2","4">>

MacShort == <<"C","C","E","0">>

\* tag 02 len 1 value 14: a status frame with signal quality 20
PStatus == <<"0","2","0","0","0","1","1","4">>

\* tag 00 len 4 value 100, tag 01 len 1 value 1: a fix frame, Motion, timestamp 100
PFix == <<"0","0","0","0","0","4","0","0","0","0","0","0","6","4",
          "0","1","0","0","0","1","0","1">>

\* tag 02 declares 5 value bytes and 1 follows: truncated
PTrunc == <<"0","2","0","0","0","5","f","f">>

\* an odd number of hex digits: hex.DecodeString fails
POdd == <<"0","2","0">>

PJson == <<"{","}">>

Env(rowId, hw, mac, flag, tsMs, payload) ==
    [RowID |-> rowId, GWHW |-> hw, GWMAC |-> mac, Topic |-> "gw/up", Flag |-> flag,
     DeviceTsMs |-> tsMs, PayloadHex |-> payload]

\* a body is Nil (no JSON document) or <<Envelope>>
Bodies ==
    { Nil,
      Some(Env(Some(1), MKGW4, MacOK, SelfPrefix \o Flag3004, 0, PStatus)),
      Some(Env(Nil, <<"m","k","g","w","4">>, MacOK, Flag3089, 5000, PFix)),
      Some(Env(Some(2), MKGW4, MacOK, SelfPrefix \o Flag3004, 0, PTrunc)),
      Some(Env(Nil, MKGW4, MacOK, Flag30B1, 0, POdd)),
      Some(Env(Some(1), MKGW4, MacOK, SelfPrefix \o <<"3","0","A","0">>, 7000, PStatus)),
      Some(Env(Some(0), <<"M","K","G","W","3">>, MacOK, <<>>, 0, PJson)),
      Some(Env(Nil, <<>>, MacOK, Flag3004, 0, PStatus)),
      Some(Env(Some(1), MKGW4, MacShort, Flag3004, 0, PStatus)),
      Some(Env(Some(1), MKGW4, MacOK, Flag3089, 0, PFix)) }

Request(method, token, key, body) ==
    [method |-> method, token |-> token, key |-> key, body |-> body]

AnyBody == Some(Env(Some(1), MKGW4, MacOK, SelfPrefix \o Flag3004, 0, PStatus))

RequestInputs(r) ==
    { Request("GET", Token, Keys[1], AnyBody),
      Request("POST", BadToken, Keys[1], AnyBody),
      Request("POST", <<>>, Keys[1], AnyBody),
      Request("POST", Token, <<>>, AnyBody) }
    \cup { Request("POST", Token, k, b) : k \in KeysOf(r), b \in Bodies }

NoRequest == Request("", <<>>, <<>>, Nil)

\* time.Now().Unix(): 1700000000
NowValues == {Wide(25939, 61696)}

(***************************************************************************)
(* State                                                                   *)
(***************************************************************************)
VARIABLES
    build,      \* which version of handleAuto the service runs
    authToken,  \* GWAUTO_AUTH_TOKEN
    receipts,   \* gw_auto_receipts: the set of idempotency keys
    rows,       \* public.gateway_message: row id -> Nil or <<row>>
    autoRows,   \* gateway_auto_message: a set of rows
    published,  \* the events the bus has taken, each with the request it is from
    pc,         \* where each request's handler stands
    inp,        \* each request's method, headers and body
    loc,        \* the handler's locals after the body was processed
    idem,       \* what receiptsSeen answered: "none", "fresh", "dup", "err"
    mergeRes,   \* what the store write answered: "none", "ok", "notfound", "err"
    pubRes,     \* how the wait for the publish ended: "none", "ack", "error", "timeout", "cancelled"
    timer,      \* seconds left of the publish wait
    cancelled,  \* the request's context is done (client gone, deadline, handler returned)
    out,        \* Nil or <<the event handed to psTopic.Publish>>
    resp,       \* Nil or <<the response written>>
    log,        \* the stages each handler went through, in order
    prior,      \* the requests that had ended when this one began
    frameType,  \* decoder bench: the frame type code handed to DecodeMKGW4Auto
    records,    \* decoder bench: the TLV records the frame is built from
    cut,        \* decoder bench: the hex digits missing at the end of the frame
    decoded,    \* decoder bench: Nil or <<what DecodeMKGW4Auto returned>>
    macText,    \* MAC bench: the text handed to ParseMAC12
    macOut,     \* MAC bench: Nil or <<what ParseMAC12 returned>>
    found,      \* lookup bench: Nil or <<the arguments and result of FindGatewayRowID>>
    merged      \* merge bench: Nil or <<the arguments and result of the merge by row id>>

\* the decoder bench feeds frames to the decoder outside of any request
\* the benches of the other functions, idle while the service or the decoder
\* bench runs
uvars == <<macText, macOut, found, merged>>

dvars == <<frameType, records, cut, decoded, uvars>>

vars == <<build, authToken, receipts, rows, autoRows, published, pc, inp, loc, idem,
          mergeRes, pubRes, timer, cancelled, out, resp, log, prior, dvars>>

RowIds == {1, 2}

\* a row of public.gateway_message as the upstream writer left it
ExistingRow ==
    [gw_mac |-> MacOK, payload_hex |-> Some(PStatus), raw_json_payload_hex |-> Nil,
     ts_device |-> UnixMilli(7000),
     parser |-> "", parser_json |-> Nil,
     latitude |-> Some(488566000), longitude |-> Some(23522000), tac |-> Some(77),
     cell_id |-> Some(4242), network_type |-> Some(<<76, 84, 69>>), csq |-> Some(9),
     batt_mv |-> Some(3700), axis_x_mg |-> Some(1), axis_y_mg |-> Some(2),
     axis_z_mg |-> Some(3), acc_status |-> Some(1), imei |-> Some(<<56, 54>>),
     iccid |-> Some(<<56, 57>>)]

Response(status, body) == Some([status |-> status, body |-> body])

\* net/http cancels the request's context when ServeHTTP returns
Returned(r) == [cancelled EXCEPT ![r] = TRUE]

\* the store and the handlers after main: nothing received yet
InitState ==
    /\ build \in {"publish", "upsert"}
    /\ receipts = {}
    /\ rows = [id \in RowIds |-> IF id = 1 THEN Some(ExistingRow) ELSE Nil]
    /\ autoRows = {}
    /\ published = {}
    /\ pc = [r \in Reqs |-> "idle"]
    /\ inp = [r \in Reqs |-> NoRequest]
    /\ loc = [r \in Reqs |-> Rejected]
    /\ idem = [r \in Reqs |-> "none"]
    /\ mergeRes = [r \in Reqs |-> "none"]
    /\ pubRes = [r \in Reqs |-> "none"]
    /\ timer = [r \in Reqs |-> 0]
    /\ cancelled = [r \in Reqs |-> FALSE]
    /\ out = [r \in Reqs |-> Nil]
    /\ resp = [r \in Reqs |-> Nil]
    /\ log = [r \in Reqs |-> <<>>]
    /\ prior = [r \in Reqs |-> {}]

\* the service with GWAUTO_AUTH_TOKEN set
InitService == authToken = Token /\ InitState

\* no frame on the decoder bench
\* no text on the MAC bench, no lookup and no merge made
UnitsIdle ==
    /\ macText = <<>>
    /\ macOut = Nil
    /\ found = Nil
    /\ merged = Nil

BenchIdle ==
    /\ frameType = <<>>
    /\ records = <<>>
    /\ cut = 0
    /\ decoded = Nil
    /\ UnitsIdle

Init == InitService /\ BenchIdle

(***************************************************************************)
(* handleAuto, step by step.  The steps are cut at the store round trips   *)
(* and at the publish call, where the handler can be suspended.            *)
(***************************************************************************)
\* lines 302-322 (687-707 in the UpsertAuto version): 0 when the request passes
\* the bearer token is compared even when no token is configured
HeaderCheckAlwaysAuth(bld, auth, i) ==
    IF i.method # "POST" THEN 405
    ELSE IF i.token = <<>> \/ i.token # auth THEN 401
    ELSE IF bld = "publish" /\ TrimSpace(i.key) = <<>> THEN 400
    ELSE IF bld = "upsert" /\ i.key = <<>> THEN 400
    ELSE 0

HeaderCheck(bld, auth, i) ==
    IF i.method # "POST" THEN 405
    ELSE IF auth # <<>> /\ (i.token = <<>> \/ i.token # auth) THEN 401
    ELSE IF bld = "publish" /\ TrimSpace(i.key) = <<>> THEN 400
    ELSE IF bld = "upsert" /\ i.key = <<>> THEN 400
    ELSE 0

HeaderError(code) ==
    CASE code = 405 -> "method not allowed"
      [] code = 401 -> "unauthorized"
      [] OTHER -> "missing idempotency"

Start(r) ==
    /\ pc[r] = "idle"
    /\ IF r = 1 THEN TRUE ELSE pc[r - 1] # "idle"
    /\ \E i \in RequestInputs(r) :
         LET code == HeaderCheck(build, authToken, i)
         IN  /\ inp' = [inp EXCEPT ![r] = i]
             /\ prior' = [prior EXCEPT ![r] = {q \in Reqs : pc[q] = "done"}]
             /\ IF code = 0
                THEN /\ pc' = [pc EXCEPT ![r] = "idem"]
                     /\ UNCHANGED <<resp, log, cancelled>>
                ELSE /\ pc' = [pc EXCEPT ![r] = "done"]
                     /\ resp' = [resp EXCEPT ![r] = Response(code, HeaderError(code))]
                     /\ log' = [log EXCEPT ![r] = <<"respond">>]
                     /\ cancelled' = Returned(r)
    /\ UNCHANGED <<dvars, build, authToken, receipts, rows, autoRows, published, loc, idem,
                   mergeRes, pubRes, timer, out>>

\* a store call made with a context that is done fails; otherwise the store
\* answers or is unavailable
StoreOutcomes(r) == IF cancelled[r] THEN {FALSE} ELSE BOOLEAN

\* lines 324-333: what the handler does with receiptsSeen's answer
IdemBranchNoDup(err, dup) == IF err THEN "fail" ELSE "continue"

IdemBranchIgnoreErr(err, dup) == IF ~err /\ dup THEN "dup" ELSE "continue"

IdemBranch(err, dup) == IF err THEN "fail" ELSE IF dup THEN "dup" ELSE "continue"

ReceiptsSeen(r) ==
    /\ pc[r] = "idem"
    /\ \E storeOk \in StoreOutcomes(r) :
         LET rs == receiptsSeen(receipts, inp[r].key)
             br == IdemBranch(~storeOk, storeOk /\ rs.dup)
             reserved == IF storeOk /\ inp[r].key \notin receipts
                         THEN <<"reserve">> ELSE <<>>
         IN  /\ receipts' = IF storeOk THEN rs.receipts ELSE receipts
             /\ idem' = [idem EXCEPT ![r] = IF ~storeOk THEN "err"
                                            ELSE IF rs.dup THEN "dup" ELSE "fresh"]
             /\ CASE br = "fail" ->
                       /\ pc' = [pc EXCEPT ![r] = "done"]
                       /\ resp' = [resp EXCEPT ![r] = Response(500, "server error")]
                       /\ log' = [log EXCEPT ![r] = @ \o reserved \o <<"respond">>]
                       /\ cancelled' = Returned(r)
                  [] br = "dup" ->
                       /\ pc' = [pc EXCEPT ![r] = "done"]
                       /\ resp' = [resp EXCEPT ![r] = Response(200, "dup")]
                       /\ log' = [log EXCEPT ![r] = @ \o reserved \o <<"respond">>]
                       /\ cancelled' = Returned(r)
                  [] OTHER ->
                       /\ pc' = [pc EXCEPT ![r] = "body"]
                       /\ log' = [log EXCEPT ![r] = @ \o reserved]
                       /\ UNCHANGED <<resp, cancelled>>
    /\ UNCHANGED <<dvars, build, authToken, rows, autoRows, published, inp, loc, mergeRes,
                   pubRes, timer, out, prior>>

NoDecode == [auto |-> Nil, ok |-> FALSE, err |-> FALSE]

DecoderResults(bld, body, now) ==
    IF bld = "upsert" /\ body # Nil THEN LegacyDecodeResults(body[1].PayloadHex, now)
    ELSE {NoDecode}

\* line 426: the merge is made only for a row id > 0; the UpsertAuto version
\* always writes
StageAfterBody(bld, body) ==
    IF bld = "upsert" THEN "persist"
    ELSE IF body[1].RowID # Nil /\ body[1].RowID[1] > 0 THEN "persist"
    ELSE "publish"

\* lines 335-423 (720-805): read the body, validate, decode
ParseBody(r) ==
    /\ pc[r] = "body"
    /\ \E now \in NowValues : \E d \in DecoderResults(build, inp[r].body, now) :
         LET l == IF build = "publish" THEN BodyPublish(inp[r].body, now)
                  ELSE BodyUpsert(inp[r].body, now, d)
             dec == IF l.decoded THEN <<"decode">> ELSE <<>>
         IN  /\ loc' = [loc EXCEPT ![r] = l]
             /\ IF l.status = 400
                THEN /\ pc' = [pc EXCEPT ![r] = "done"]
                     /\ resp' = [resp EXCEPT ![r] = Response(400, "bad request")]
                     /\ log' = [log EXCEPT ![r] = @ \o <<"respond">>]
                     /\ cancelled' = Returned(r)
                ELSE /\ pc' = [pc EXCEPT ![r] = StageAfterBody(build, inp[r].body)]
                     /\ log' = [log EXCEPT ![r] = @ \o dec]
                     /\ UNCHANGED <<resp, cancelled>>
    /\ UNCHANGED <<dvars, build, authToken, receipts, rows, autoRows, published, inp, idem,
                   mergeRes, pubRes, timer, out, prior>>

\* lines 466-469: a merge that fails is logged and the handler goes on
StageAfterMergeFatal(res) == IF res = "ok" THEN "publish" ELSE "fail"

StageAfterMerge(res) == "publish"

\* lines 426-470: the merge by row id
MergeByRowId(r) ==
    /\ pc[r] = "persist"
    /\ build = "publish"
    /\ \E storeOk \in StoreOutcomes(r) :
         LET env == inp[r].body[1]
             u == UpdateGatewayParsedAndDenormByID(rows, env.RowID[1], ParserName(loc[r]),
                      ParsedJSON(loc[r], env.Topic), Some(loc[r].ts), loc[r].st, loc[r].fx)
             res == IF storeOk THEN u.res ELSE "err"
         IN  /\ rows' = IF storeOk THEN u.rows ELSE rows
             /\ mergeRes' = [mergeRes EXCEPT ![r] = res]
             /\ IF StageAfterMerge(res) = "publish"
                THEN /\ pc' = [pc EXCEPT ![r] = "publish"]
                     /\ log' = [log EXCEPT ![r] = @ \o <<"persist">>]
                     /\ UNCHANGED <<resp, cancelled>>
                ELSE /\ pc' = [pc EXCEPT ![r] = "done"]
                     /\ resp' = [resp EXCEPT ![r] = Response(500, "server error")]
                     /\ log' = [log EXCEPT ![r] = @ \o <<"persist", "respond">>]
                     /\ cancelled' = Returned(r)
    /\ UNCHANGED <<dvars, build, authToken, receipts, autoRows, published, inp, loc, idem,
                   pubRes, timer, out, prior>>

\* lines 807-826: the insert, whose failure ends the request with 500
Upsert(r) ==
    /\ pc[r] = "persist"
    /\ build = "upsert"
    /\ \E storeOk \in StoreOutcomes(r) :
         LET env == inp[r].body[1]
             l == loc[r]
         IN  /\ autoRows' = IF storeOk
                            THEN UpsertAuto(autoRows, env.GWHW, l.macBytes, env.Topic,
                                            l.flag, l.payload, l.ts, l.st, l.fx)
                            ELSE autoRows
             /\ mergeRes' = [mergeRes EXCEPT ![r] = IF storeOk THEN "ok" ELSE "err"]
             /\ resp' = [resp EXCEPT ![r] = IF storeOk THEN Response(200, "")
                                            ELSE Response(500, "server error")]
    /\ pc' = [pc EXCEPT ![r] = "done"]
    /\ log' = [log EXCEPT ![r] = @ \o <<"persist", "respond">>]
    /\ cancelled' = Returned(r)
    /\ UNCHANGED <<dvars, build, authToken, receipts, rows, published, inp, loc, idem,
                   pubRes, timer, out, prior>>

\* lines 473-494: the event is handed to the topic and the wait begins
Publish(r) ==
    /\ pc[r] = "publish"
    /\ pc' = [pc EXCEPT ![r] = "wait"]
    /\ out' = [out EXCEPT ![r] = Some(OutEvent(loc[r], inp[r].body[1].Topic,
                                               inp[r].body[1].RowID))]
    /\ timer' = [timer EXCEPT ![r] = PublishWaitSecs]
    /\ log' = [log EXCEPT ![r] = @ \o <<"publish">>]
    /\ UNCHANGED <<dvars, build, authToken, receipts, rows, autoRows, published, inp, loc,
                   idem, mergeRes, pubRes, cancelled, resp, prior>>

\* a second of the publish wait passes
Tick(r) ==
    /\ pc[r] = "wait"
    /\ timer[r] > 0
    /\ timer' = [timer EXCEPT ![r] = @ - 1]
    /\ UNCHANGED <<dvars, build, authToken, receipts, rows, autoRows, published, pc, inp, loc,
                   idem, mergeRes, pubRes, cancelled, out, resp, log, prior>>

\* line 488: ctx is r.Context() with a timeout of 5 seconds
CtxDoneNever(r) == FALSE

CtxDone(r) == timer[r] = 0 \/ cancelled[r]

\* lines 495-503: whatever res.Get answered, the response is 200 {"ok":true}
PublishResponseFatal(res) ==
    IF res = "ack" THEN Response(200, "ok") ELSE Response(500, "server error")

PublishResponse(res) == Response(200, "ok")

\* res.Get(ctx) returns res and the handler writes the response
GetReturns(r, res, delivered) ==
    /\ pc[r] = "wait"
    /\ pubRes' = [pubRes EXCEPT ![r] = res]
    /\ published' = IF delivered THEN published \cup {[by |-> r, ev |-> out[r][1]]}
                    ELSE published
    /\ resp' = [resp EXCEPT ![r] = PublishResponse(res)]
    /\ pc' = [pc EXCEPT ![r] = "done"]
    /\ log' = [log EXCEPT ![r] = @ \o <<"pubdone", "respond">>]
    /\ timer' = [timer EXCEPT ![r] = 0]
    /\ cancelled' = Returned(r)
    /\ UNCHANGED <<dvars, build, authToken, receipts, rows, autoRows, inp, loc, idem, mergeRes,
                   out, prior>>

\* the bus acknowledges the message
GetAck(r) == GetReturns(r, "ack", TRUE)

\* the bus refuses the message
GetError(r) == GetReturns(r, "error", FALSE)

\* the wait ends because ctx is done; the message may still reach the bus
GetCtxDone(r) ==
    /\ CtxDone(r)
    /\ \E delivered \in BOOLEAN :
         GetReturns(r, IF cancelled[r] THEN "cancelled" ELSE "timeout", delivered)

\* the cancellation undoes the reservation of the request's key
CancelRollsBack(r) ==
    /\ pc[r] \in {"idem", "body", "persist", "publish", "wait"}
    /\ ~cancelled[r]
    /\ cancelled' = [cancelled EXCEPT ![r] = TRUE]
    /\ receipts' = IF idem[r] = "fresh" THEN receipts \ {inp[r].key} ELSE receipts
    /\ UNCHANGED <<dvars, build, authToken, rows, autoRows, published, pc, inp, loc,
                   idem, mergeRes, pubRes, timer, out, resp, log, prior>>

\* the client goes away or the request's deadline passes while the handler runs
Cancel(r) ==
    /\ pc[r] \in {"idem", "body", "persist", "publish", "wait"}
    /\ ~cancelled[r]
    /\ cancelled' = [cancelled EXCEPT ![r] = TRUE]
    /\ UNCHANGED <<dvars, build, authToken, receipts, rows, autoRows, published, pc, inp, loc,
                   idem, mergeRes, pubRes, timer, out, resp, log, prior>>

Next ==
    \E r \in Reqs :
        \/ Start(r)
        \/ ReceiptsSeen(r)
        \/ ParseBody(r)
        \/ MergeByRowId(r)
        \/ Upsert(r)
        \/ Publish(r)
        \/ Tick(r)
        \/ GetAck(r)
        \/ GetError(r)
        \/ GetCtxDone(r)
        \/ Cancel(r)

Spec == Init /\ [][Next]_vars

\* The Go runtime fires the timer of context.WithTimeout and schedules the
\* goroutine blocked in res.Get: seconds pass and a wait whose context is done
\* returns.  Nothing makes the bus answer.
\* the service with GWAUTO_AUTH_TOKEN set or empty (line 285: authToken =
\* os.Getenv("GWAUTO_AUTH_TOKEN"))
InitAnyToken == authToken \in {<<>>, Token} /\ InitState /\ BenchIdle

SpecAnyToken == InitAnyToken /\ [][Next]_vars

Fairness == \A r \in Reqs : WF_vars(Tick(r)) /\ WF_vars(GetCtxDone(r))

SpecLive == Init /\ [][Next]_vars /\ Fairness

(***************************************************************************)
(* The decoder bench: a frame is put together record by record, may lose   *)
(* hex digits at its end, and is handed once to DecodeMKGW4Auto; what the  *)
(* handler makes of the same frame is then merged into row 1.              *)
(***************************************************************************)
MaxRecords == 2

MaxCut == 4

Rec(tag, val) == [tag |-> tag, val |-> val]

\* tag 0x00: a timestamp of 100 s, and one of 3 bytes
TsRecords == { Rec(0, <<0, 0, 0, 100>>), Rec(0, <<0, 0, 1>>), Rec(0, <<0, 0, 0, 0>>) }

\* tags no schema knows
UnknownRecords == { Rec(9, <<>>), Rec(200, <<1, 2>>) }

StatusRecords ==
    TsRecords \cup UnknownRecords \cup
    { Rec(1, <<76, 84>>),
      Rec(2, <<20>>), Rec(2, <<0>>), Rec(2, <<>>), Rec(2, <<20, 7>>),
      Rec(3, <<14, 116>>), Rec(3, <<14>>),
      Rec(4, <<1, 2, 3>>), Rec(4, <<1, 2>>),
      Rec(5, <<1>>), Rec(5, <<>>),
      Rec(6, <<56, 54>>), Rec(6, <<56, 57>>) }

\* lon/lat of the spec's example, lon -1 / lat -2^31, one of 7 bytes and one of
\* 9 bytes;
\* cell id 0x01020304 with tac 0x0506, one of 5 bytes, and cell id 0xFFFFFFFF
\* with tac 0xFFFF
FixRecords ==
    TsRecords \cup UnknownRecords \cup
    { Rec(1, <<v>>) : v \in {0, 1, 2, 3, 255} } \cup
    { Rec(2, <<v>>) : v \in 0..8 \cup {255} } \cup
    { Rec(1, <<>>), Rec(2, <<>>),
      Rec(3, <<7, 91, 205, 21, 0, 188, 97, 78>>),
      Rec(3, <<255, 255, 255, 255, 128, 0, 0, 0>>),
      Rec(3, <<7, 91, 205, 21, 0, 188, 97>>),
      Rec(3, <<128, 0, 0, 1, 127, 255, 255, 255, 9>>),
      Rec(4, <<1, 2, 3, 4, 5, 6>>), Rec(4, <<1, 2, 3, 4, 5>>),
      Rec(4, <<255, 255, 255, 255, 255, 255>>),
      Rec(5, <<1>>) }

Flag30A0 == <<"3","0","A","0">>

\* the codes of the status frame and of the two fix frames, one of them in
\* lower case, and a code the decoder has no schema for
FrameTypes == {Flag3004, Flag3089, <<"3","0","b","1">>, Flag30A0}

IsStatusType(ft) == ToUpper(TrimSpace(ft)) = Flag3004

IsFixType(ft) == ToUpper(TrimSpace(ft)) \in {Flag3089, Flag30B1}

RecordsFor(ft) == IF IsFixType(ft) THEN FixRecords ELSE StatusRecords

\* a record on the wire: tag, length (2 bytes, big-endian), value
RecBytes(rec) == <<rec.tag, Len(rec.val) \div 256, Len(rec.val) % 256>> \o rec.val

RECURSIVE Flatten(_)
Flatten(recs) == IF recs = <<>> THEN <<>> ELSE RecBytes(Head(recs)) \o Flatten(Tail(recs))

\* hex.EncodeToString, in upper case
RECURSIVE HexEncode(_)
HexEncode(b) ==
    IF b = <<>> THEN <<>>
    ELSE <<HexUpper[(Head(b) \div 16) + 1], HexUpper[(Head(b) % 16) + 1]>> \o HexEncode(Tail(b))

\* the payload_hex of the frame on the bench
BenchHex ==
    LET h == HexEncode(Flatten(records))
    IN  SubSeq(h, 1, Len(h) - cut)

InitBench ==
    /\ InitService
    /\ build = "publish"
    /\ frameType \in FrameTypes
    /\ records = <<>>
    /\ cut = 0
    /\ decoded = Nil
    /\ UnitsIdle

AddRecord ==
    /\ decoded = Nil
    /\ cut = 0
    /\ Len(records) < MaxRecords
    /\ \E rec \in RecordsFor(frameType) : records' = Append(records, rec)
    /\ UNCHANGED <<build, authToken, receipts, rows, autoRows, published, pc, inp, loc,
                   idem, mergeRes, pubRes, timer, cancelled, out, resp, log, prior,
                   frameType, cut, decoded, uvars>>

\* the frame arrives short of its last hex digits
Cut ==
    /\ decoded = Nil
    /\ cut = 0
    /\ records # <<>>
    /\ \E k \in 1..MaxCut : cut' = k
    /\ UNCHANGED <<build, authToken, receipts, rows, autoRows, published, pc, inp, loc,
                   idem, mergeRes, pubRes, timer, cancelled, out, resp, log, prior,
                   frameType, records, decoded, uvars>>

Decode ==
    /\ decoded = Nil
    /\ \E now \in NowValues : decoded' = Some(DecodeMKGW4Auto(frameType, BenchHex, now))
    /\ UNCHANGED <<build, authToken, receipts, rows, autoRows, published, pc, inp, loc,
                   idem, mergeRes, pubRes, timer, cancelled, out, resp, log, prior,
                   frameType, records, cut, uvars>>

\* the envelope that carries the bench's frame for row 1
BenchBody == Some(Env(Some(1), MKGW4, MacOK, SelfPrefix \o frameType, 0, BenchHex))

\* lines 356-470: the handler's decode of the frame, merged into row 1
MergeDecoded ==
    /\ decoded # Nil
    /\ rows[1][1].parser = ""
    /\ \E now \in NowValues :
         LET l == BodyPublish(BenchBody, now)
             u == UpdateGatewayParsedAndDenormByID(rows, 1, ParserName(l),
                      ParsedJSON(l, BenchBody[1].Topic), Some(l.ts), l.st, l.fx)
         IN  rows' = u.rows
    /\ UNCHANGED <<build, authToken, receipts, autoRows, published, pc, inp, loc,
                   idem, mergeRes, pubRes, timer, cancelled, out, resp, log, prior, dvars>>

NextBench == AddRecord \/ Cut \/ Decode \/ MergeDecoded

SpecBench == InitBench /\ [][NextBench]_vars

(***************************************************************************)
(* storage.go: Store.FindGatewayRowID, two queries on                      *)
(* public.gateway_message.  fail1 and fail2 say that the store failed the  *)
(* first and the second query (an error that is not pgx.ErrNoRows).  The   *)
(* result tells whether the second query was sent.                         *)
(***************************************************************************)
MaxId(ids) == CHOOSE id \in ids : \A other \in ids : other <= id

FindResult(id, err, fallback) == [id |-> id, err |-> err, fallback |-> fallback]

\* the second query is sent whenever the first one found no row, whatever
\* payloadHex looks like
FindGatewayRowIDAnyPayload(tbl, gwMAC, ts, payloadHex, fail1, fail2) ==
    LET direct == {id \in DOMAIN tbl : /\ tbl[id] # Nil
                                       /\ tbl[id][1].gw_mac = gwMAC
                                       /\ tbl[id][1].ts_device = ts
                                       /\ tbl[id][1].payload_hex = Some(payloadHex)}
        byJson == {id \in DOMAIN tbl : /\ tbl[id] # Nil
                                       /\ tbl[id][1].gw_mac = gwMAC
                                       /\ tbl[id][1].ts_device = ts
                                       /\ tbl[id][1].payload_hex \in {Some(<<>>), Nil}
                                       /\ tbl[id][1].raw_json_payload_hex = Some(payloadHex)}
    IN  IF ~fail1 /\ direct # {} THEN FindResult(MaxId(direct), "none", FALSE)
        ELSE IF ~fail2 /\ byJson # {} THEN FindResult(MaxId(byJson), "none", TRUE)
        ELSE IF fail1 /\ fail2 THEN FindResult(0, "fail", TRUE)
        ELSE FindResult(0, "norows", TRUE)

FindGatewayRowID(tbl, gwMAC, ts, payloadHex, fail1, fail2) ==
    LET direct == {id \in DOMAIN tbl : /\ tbl[id] # Nil
                                       /\ tbl[id][1].gw_mac = gwMAC
                                       /\ tbl[id][1].ts_device = ts
                                       /\ tbl[id][1].payload_hex = Some(payloadHex)}
        byJson == {id \in DOMAIN tbl : /\ tbl[id] # Nil
                                       /\ tbl[id][1].gw_mac = gwMAC
                                       /\ tbl[id][1].ts_device = ts
                                       /\ tbl[id][1].payload_hex \in {Some(<<>>), Nil}
                                       /\ tbl[id][1].raw_json_payload_hex = Some(payloadHex)}
    IN  IF ~fail1 /\ direct # {} THEN FindResult(MaxId(direct), "none", FALSE)
        ELSE IF payloadHex # <<>> /\ (HasPrefix(payloadHex, <<"{">>) \/ HasPrefix(payloadHex, <<"[">>))
        THEN IF ~fail2 /\ byJson # {} THEN FindResult(MaxId(byJson), "none", TRUE)
             ELSE IF fail1 /\ fail2 THEN FindResult(0, "fail", TRUE)
             ELSE FindResult(0, "norows", TRUE)
        ELSE FindResult(0, "norows", FALSE)

(***************************************************************************)
(* Lookup bench: the upstream writer fills public.gateway_message, then    *)
(* FindGatewayRowID is called once.                                        *)
(***************************************************************************)
MacOther == <<"A","A","B","B","C","C","D","D","E","E","F","F">>

PJsonArray == <<"[","]">>

\* rows of one gateway and time: the payload in payload_hex (hex, JSON, empty),
\* or payload_hex empty or NULL and the payload in raw_json; and a row of
\* another gateway and one of another time
FindRows ==
    { [ExistingRow EXCEPT !.payload_hex = Some(PJson)],
      [ExistingRow EXCEPT !.payload_hex = Some(<<>>), !.raw_json_payload_hex = Some(PJson)],
      [ExistingRow EXCEPT !.payload_hex = Nil, !.raw_json_payload_hex = Some(PJson)],
      ExistingRow,
      [ExistingRow EXCEPT !.payload_hex = Nil, !.raw_json_payload_hex = Some(PStatus)],
      [ExistingRow EXCEPT !.gw_mac = MacOther, !.payload_hex = Some(PJson)],
      [ExistingRow EXCEPT !.ts_device = UnixMilli(0), !.payload_hex = Nil,
                          !.raw_json_payload_hex = Some(PJson)] }

FindPayloads == {PStatus, PJson, PJsonArray, <<>>}

InitFind ==
    /\ InitService
    /\ build = "publish"
    /\ BenchIdle

WriteRow ==
    /\ found = Nil
    /\ \E id \in RowIds : \E row \in FindRows : rows' = [rows EXCEPT ![id] = Some(row)]
    /\ UNCHANGED <<build, authToken, receipts, autoRows, published, pc, inp, loc,
                   idem, mergeRes, pubRes, timer, cancelled, out, resp, log, prior,
                   frameType, records, cut, decoded, macText, macOut, found, merged>>

Find ==
    /\ found = Nil
    /\ \E payloadHex \in FindPayloads : \E fail1 \in BOOLEAN : \E fail2 \in BOOLEAN :
         found' = Some([gwMAC |-> MacOK, ts |-> UnixMilli(7000), payloadHex |-> payloadHex,
                        fail1 |-> fail1, fail2 |-> fail2,
                        res |-> FindGatewayRowID(rows, MacOK, UnixMilli(7000), payloadHex,
                                                 fail1, fail2)])
    /\ UNCHANGED <<build, authToken, receipts, rows, autoRows, published, pc, inp, loc,
                   idem, mergeRes, pubRes, timer, cancelled, out, resp, log, prior,
                   frameType, records, cut, decoded, macText, macOut, merged>>

NextFind == WriteRow \/ Find

SpecFind == InitFind /\ [][NextFind]_vars

(***************************************************************************)
(* Merge bench: Store.UpdateGatewayParsedAndDenormByID called once with a  *)
(* status report and a fix report built by the caller.                     *)
(***************************************************************************)
\* status reports with and without a network type, an IMEI ("86") and an
\* ICCID ("89"), signal quality 0 or 20
StatusReports ==
    { [EmptyStatus EXCEPT !.NetworkType = nt, !.CSQ = csq, !.IMEI = imei, !.ICCID = iccid] :
          nt \in {<<>>, <<76, 84>>}, csq \in {0, 20},
          imei \in {<<>>, <<56, 54>>}, iccid \in {<<>>, <<56, 57>>} }

\* the fix report of the spec's example position
FixReports ==
    { EmptyFix,
      [EmptyFix EXCEPT !.Longitude = 123456789, !.Latitude = 12345678,
                       !.TacLac = 1286, !.CI = Wide(258, 772)] }

InitMerge ==
    /\ InitService
    /\ build = "publish"
    /\ BenchIdle

MergeReport ==
    /\ merged = Nil
    /\ \E id \in RowIds :
       \E st \in {Nil} \cup {Some(s) : s \in StatusReports} :
       \E fx \in {Nil} \cup {Some(f) : f \in FixReports} :
       \E deviceTs \in {Nil, Some(Unix(Wide(0, 100)))} :
         LET parsed == [status |-> st, fix |-> fx]
             u == UpdateGatewayParsedAndDenormByID(rows, id, "mkgw4:auto", parsed,
                                                   deviceTs, st, fx)
         IN  /\ rows' = u.rows
             /\ merged' = Some([id |-> id, st |-> st, fx |-> fx, deviceTs |-> deviceTs,
                                res |-> u.res])
    /\ UNCHANGED <<build, authToken, receipts, autoRows, published, pc, inp, loc,
                   idem, mergeRes, pubRes, timer, cancelled, out, resp, log, prior,
                   frameType, records, cut, decoded, macText, macOut, found>>

NextMerge == MergeReport

SpecMerge == InitMerge /\ [][NextMerge]_vars

(***************************************************************************)
(* MAC bench: ParseMAC12 applied to texts typed pair by pair, with or      *)
(* without one character in front.                                         *)
(***************************************************************************)
MaxMacLen == 13

\* two hex digits, two in lower case, a digit followed by a letter that is no
\* hex digit, and that letter followed by a digit
MacPairs == { <<"C","C">>, <<"e","0">>, <<"0","G">>, <<"G","0">> }

\* a space or a digit in front of the pairs
MacLeads == { <<" ">>, <<"4">> }

InitMac ==
    /\ InitService
    /\ build = "publish"
    /\ frameType = <<>>
    /\ records = <<>>
    /\ cut = 0
    /\ decoded = Nil
    /\ macText = <<>>
    /\ macOut = Nil
    /\ found = Nil
    /\ merged = Nil

TypeLead ==
    /\ macOut = Nil
    /\ macText = <<>>
    /\ \E c \in MacLeads : macText' = c
    /\ UNCHANGED <<build, authToken, receipts, rows, autoRows, published, pc, inp, loc,
                   idem, mergeRes, pubRes, timer, cancelled, out, resp, log, prior,
                   frameType, records, cut, decoded, macOut, found, merged>>

TypePair ==
    /\ macOut = Nil
    /\ Len(macText) + 2 <= MaxMacLen
    /\ \E p \in MacPairs : macText' = macText \o p
    /\ UNCHANGED <<build, authToken, receipts, rows, autoRows, published, pc, inp, loc,
                   idem, mergeRes, pubRes, timer, cancelled, out, resp, log, prior,
                   frameType, records, cut, decoded, macOut, found, merged>>

ParseMac ==
    /\ macOut = Nil
    /\ macOut' = Some(ParseMAC12(macText))
    /\ UNCHANGED <<build, authToken, receipts, rows, autoRows, published, pc, inp, loc,
                   idem, mergeRes, pubRes, timer, cancelled, out, resp, log, prior,
                   frameType, records, cut, decoded, macText, found, merged>>

NextMac == TypeLead \/ TypePair \/ ParseMac

SpecMac == InitMac /\ [][NextMac]_vars

(***************************************************************************)
(* parser.go: the buffer indices parseStatusTLV and parseFixTLV read       *)
(* (counted from 0, as in the code), and the value of i at the head of     *)
(* each turn of their loop.                                                *)
(***************************************************************************)
\* the length test is left out
ValueFitsUnchecked(body, j, ln) == TRUE

\* lines 98-100 (152-154): if i+ln > len(body) { return error }
ValueFits(body, j, ln) == ~(j + ln > Len(body))

\* the value bytes the case of a tag reads, the value starting at j
StatusReads(tag, j, ln) ==
    CASE tag = 0 /\ ln >= 4 -> j..(j + 3)
      [] tag = 1 -> j..(j + ln - 1)
      [] tag = 2 /\ ln >= 1 -> {j}
      [] tag = 3 /\ ln >= 2 -> {j, j + 1}
      [] tag = 4 /\ ln >= 3 -> {j, j + 1, j + 2}
      [] tag = 5 /\ ln >= 1 -> {j}
      [] tag = 6 -> j..(j + ln - 1)
      [] OTHER -> {}

FixReads(tag, j, ln) ==
    CASE tag = 0 /\ ln >= 4 -> j..(j + 3)
      [] tag = 1 /\ ln >= 1 -> {j}
      [] tag = 2 /\ ln >= 1 -> {j}
      [] tag = 3 /\ ln >= 8 -> j..(j + 7)
      [] tag = 4 /\ ln >= 6 -> j..(j + 5)
      [] OTHER -> {}

\* at: the values of i at the head of the turns made so far; reads: the
\* indices read so far
RECURSIVE TlvTrace(_, _, _, _, _)
TlvTrace(fix, body, i, at, reads) ==
    IF ~(i < Len(body)) THEN [err |-> FALSE, at |-> at, reads |-> reads, i |-> i]
    ELSE IF i + 1 + 2 > Len(body)
    THEN [err |-> TRUE, at |-> Append(at, i), reads |-> reads \cup {i}, i |-> i + 1]
    ELSE LET tag == body[i + 1]
             ln  == be16(body, i + 1)
             j   == i + 3
             hdr == reads \cup {i, i + 1, i + 2}
         IN  IF ~ValueFits(body, j, ln)
             THEN [err |-> TRUE, at |-> Append(at, i), reads |-> hdr, i |-> j]
             ELSE TlvTrace(fix, body, j + ln, Append(at, i),
                           hdr \cup (IF fix THEN FixReads(tag, j, ln)
                                     ELSE StatusReads(tag, j, ln)))

(***************************************************************************)
(* Properties                                                              *)
(***************************************************************************)
Done(r) == pc[r] = "done"

InLog(r, stage) == \E k \in 1..Len(log[r]) : log[r][k] = stage

OkResponse == Response(200, "ok")

DupResponse == Response(200, "dup")

\* a body that passes the validation of the merge-and-publish handler: a JSON
\* document with gw_hw, gw_mac and payload_hex, gw_mac of 12 characters
ValidBody(b) ==
    /\ b # Nil
    /\ TrimSpace(b[1].GWHW) # <<>>
    /\ Len(TrimSpace(b[1].GWMAC)) = 12
    /\ b[1].PayloadHex # <<>>

\* C1: a POST /auto whose X-Idempotency-Key already has a receipt ends at once
\* with 200 {"ok":true,"dup":true}: nothing was decoded, no store write was made
\* and nothing was handed to the bus for it.
C1_DuplicateShortCircuits ==
    \A r \in Reqs :
        idem[r] = "dup" =>
            /\ Done(r)
            /\ resp[r] = DupResponse
            /\ log[r] = <<"respond">>
            /\ loc[r] = Rejected
            /\ mergeRes[r] = "none"
            /\ out[r] = Nil
            /\ pubRes[r] = "none"
            /\ \A e \in published : e.by # r

C1_Witness ==
    \E r \in Reqs :
        /\ idem[r] = "dup"
        /\ Done(r)
        /\ ValidBody(inp[r].body)
        /\ inp[r].key \in receipts

C3_ExactlyOneFresh ==
    \A r \in Reqs :
        idem[r] \in {"fresh", "dup"} =>
            Cardinality({q \in Reqs : inp[q].key = inp[r].key /\ idem[q] = "fresh"}) = 1

C3_Witness ==
    \E r1 \in Reqs : \E r2 \in Reqs :
        /\ r1 # r2
        /\ inp[r1].key = inp[r2].key
        /\ r1 \notin prior[r2] /\ r2 \notin prior[r1]
        /\ idem[r1] = "fresh" /\ ~Done(r1)
        /\ idem[r2] = "dup"

\* C4: a request whose key was freshly reserved ends with a success status,
\* whatever fails later.
C4_FreshAlwaysSucceeds ==
    \A r \in Reqs :
        idem[r] = "fresh" /\ Done(r) => resp[r][1].status = 200

\* C5: a failed idempotency check ends the request with 500 and nothing decoded,
\* written or published, and no other backend failure ends a request with 500.
C5_Only500IsIdempotencyCheck ==
    \A r \in Reqs :
        /\ idem[r] = "err" =>
              /\ Done(r)
              /\ resp[r] = Response(500, "server error")
              /\ log[r] = <<"respond">>
              /\ mergeRes[r] = "none" /\ out[r] = Nil
        /\ resp[r] # Nil /\ resp[r][1].status = 500 => idem[r] = "err"

\* the frame type the handler reads from the envelope's flag (line 367)
BareFlag(flag) == ToUpper(TrimSpace(TrimPrefix(ToLower(TrimSpace(flag)), SelfPrefix)))

IsMKGW4Hex(env) == ToUpper(TrimSpace(env.GWHW)) = MKGW4 /\ looksLikeHex(env.PayloadHex)

\* the payload is no valid hex or its TLV records are truncated
DecodeFails(env) ==
    /\ IsMKGW4Hex(env)
    /\ BareFlag(env.Flag) \in {Flag3004, Flag3089, Flag30B1}
    /\ DecodeMKGW4Auto(BareFlag(env.Flag), env.PayloadHex, Wide(1, 0)).err

UnsupportedFrame(env) ==
    /\ IsMKGW4Hex(env)
    /\ BareFlag(env.Flag) \notin {Flag3004, Flag3089, Flag30B1}

\* a fresh request of the merge-and-publish handler whose body passed validation
\* and has been processed
Processed(r) ==
    /\ build = "publish"
    /\ idem[r] = "fresh"
    /\ pc[r] # "body"
    /\ ValidBody(inp[r].body)

\* request r went on undecoded and handed `payload` to the publisher
Undecoded(r, payload) ==
        /\ loc[r].status = 0
        /\ loc[r].st = Nil /\ loc[r].fx = Nil
        /\ pc[r] \in {"persist", "publish", "wait", "done"}
        /\ pc[r] \in {"wait", "done"} =>
              /\ InLog(r, "publish")
              /\ out[r] # Nil
              /\ out[r][1].parsed_status = Nil
              /\ out[r][1].parsed_fix = Nil
              /\ out[r][1].payload = payload
        /\ Done(r) => resp[r] = OkResponse

RawPayload(env) == env.PayloadHex

UpperIfDecodeFailed(env) ==
    IF DecodeFails(env) THEN ToUpper(env.PayloadHex) ELSE env.PayloadHex

C7_MergeFailureNonFatal ==
    \A r \in Reqs :
        build = "publish" /\ mergeRes[r] \in {"notfound", "err"} =>
            /\ pc[r] \in {"publish", "wait", "done"}
            /\ pc[r] \in {"wait", "done"} => InLog(r, "publish") /\ out[r] # Nil
            /\ Done(r) => resp[r] = OkResponse
            /\ mergeRes[r] = "notfound" => rows[inp[r].body[1].RowID[1]] = Nil

C7_Witness ==
    \E r \in Reqs :
        /\ build = "publish"
        /\ mergeRes[r] = "notfound"
        /\ Done(r) /\ resp[r] = OkResponse
        /\ InLog(r, "pubdone")

\* C8: when the wait for the publish ends with an error or a timeout, the
\* response written is 200 {"ok":true} all the same, and that step leaves the
\* receipts and the message rows as they are.
C8_PublishFailureNonFatal ==
    [][ \A r \in Reqs :
          pc[r] = "wait" /\ pc'[r] = "done" /\ pubRes'[r] \in {"error", "timeout", "cancelled"}
            => /\ resp'[r] = OkResponse
               /\ receipts' = receipts
               /\ rows' = rows
               /\ autoRows' = autoRows ]_vars

C8_Witness ==
    \E r \in Reqs :
        /\ pubRes[r] = "timeout"
        /\ mergeRes[r] = "ok"
        /\ rows[1][1].parser = "mkgw4:auto"
        /\ Done(r) /\ resp[r] = OkResponse

\* C9: a request that has begun the wait for the publish result writes its
\* response in the end, even if the bus never answers.
C9_PublishWaitEnds ==
    \A r \in Reqs : (pc[r] = "wait") ~> (Done(r) /\ resp[r] # Nil)

\* the whole publish wait has passed with no answer from the bus
C9_Witness ==
    \E r \in Reqs : pc[r] = "wait" /\ timer[r] = 0 /\ ~cancelled[r]

StageRank(stage) ==
    CASE stage = "reserve" -> 1
      [] stage = "decode" -> 2
      [] stage = "persist" -> 3
      [] stage = "publish" -> 4
      [] stage = "pubdone" -> 5
      [] stage = "respond" -> 6

\* C10: the stages of a request happen in the order reservation, decode, store
\* write, publish, response: no store write and no publish without the key
\* reserved before, and the response only after the publish wait has ended.
C10_StageOrder ==
    \A r \in Reqs :
        /\ \A a \in 1..Len(log[r]) : \A b \in 1..Len(log[r]) :
              a < b => StageRank(log[r][a]) < StageRank(log[r][b])
        /\ \A a \in 1..Len(log[r]) :
              log[r][a] \in {"decode", "persist", "publish"} => log[r][1] = "reserve"
        /\ mergeRes[r] # "none" \/ out[r] # Nil => inp[r].key \in receipts
        /\ InLog(r, "publish") /\ InLog(r, "respond") => InLog(r, "pubdone")
        /\ Done(r) <=> InLog(r, "respond")

C10_Witness ==
    \E r \in Reqs :
        log[r] = <<"reserve", "decode", "persist", "publish", "pubdone", "respond">>

(***************************************************************************)
(* Persistence                                                             *)
(***************************************************************************)
\* C11: every fresh request that passed validation, the store being available
\* to it, has made exactly one store write for its event, whether or not its
\* envelope carries a row id.
C11_PersistedExactlyOnce ==
    \A r \in Reqs :
        Done(r) /\ idem[r] = "fresh" /\ loc[r].status = 0 /\ mergeRes[r] # "err"
            => /\ mergeRes[r] = "ok"
               /\ Cardinality({k \in 1..Len(log[r]) : log[r][k] = "persist"}) = 1

\* request r has merged its report into row id
MergedInto(r, id) == mergeRes[r] = "ok" /\ build = "publish" /\ inp[r].body[1].RowID = Some(id)

\* C12: the merge by row id keeps a column's existing value when it carries no
\* new value for it: while only status reports (or no report) were merged into a
\* row its longitude, latitude, tac/lac and cell id are as they were, and while
\* only fix reports (or no report) were merged its status columns are as they were.
C12_MergeKeepsExisting ==
    \A id \in RowIds :
        rows[id] # Nil =>
            LET row == rows[id][1]
            IN  /\ (\A r \in Reqs : MergedInto(r, id) => loc[r].fx = Nil)
                      => /\ row.longitude = ExistingRow.longitude
                         /\ row.latitude = ExistingRow.latitude
                         /\ row.tac = ExistingRow.tac
                         /\ row.cell_id = ExistingRow.cell_id
                /\ (\A r \in Reqs : MergedInto(r, id) => loc[r].st = Nil)
                      => /\ row.network_type = ExistingRow.network_type
                         /\ row.csq = ExistingRow.csq
                         /\ row.batt_mv = ExistingRow.batt_mv
                         /\ row.axis_x_mg = ExistingRow.axis_x_mg
                         /\ row.axis_y_mg = ExistingRow.axis_y_mg
                         /\ row.axis_z_mg = ExistingRow.axis_z_mg
                         /\ row.acc_status = ExistingRow.acc_status
                         /\ row.imei = ExistingRow.imei
                         /\ row.iccid = ExistingRow.iccid

(***************************************************************************)
(* The decoder: properties over the bench                                  *)
(***************************************************************************)
\* the decoder returned a frame
DecodedOk == decoded # Nil /\ decoded[1].ok /\ ~decoded[1].err /\ decoded[1].auto # Nil

HasTag(t) == \E k \in 1..Len(records) : records[k].tag = t

\* the record that reports the value 0 for a numeric status tag
ZeroRecord(t) ==
    CASE t = 2 -> Rec(2, <<0>>)
      [] t = 3 -> Rec(3, <<0, 0>>)
      [] t = 4 -> Rec(4, <<0, 0, 0>>)
      [] t = 5 -> Rec(5, <<0>>)

\* what the decoder returns for the bench's records followed by rec
DecodeWith(rec) ==
    DecodeMKGW4Auto(frameType, HexEncode(Flatten(Append(records, rec))),
                    CHOOSE now \in NowValues : TRUE)

\* row 1 after the merge of the bench's frame
Stored == rows[1][1]

IsStored == Stored.parser # ""

\* C13: a status frame without the signal-quality (battery, axes, accel-status)
\* tag decodes to a report different from that of the same frame reporting the
\* value 0 for it, and the merge does not store 0 for the missing field.
C13_AbsentIsNotZero ==
    DecodedOk /\ IsStatusType(frameType) /\ cut = 0 =>
        /\ \A t \in {2, 3, 4, 5} :
              ~HasTag(t) => DecodeWith(ZeroRecord(t)).auto[1].Status # decoded[1].auto[1].Status
        /\ IsStored =>
              /\ ~HasTag(2) => Stored.csq # Some(0)
              /\ ~HasTag(3) => Stored.batt_mv # Some(0)
              /\ ~HasTag(4) => Stored.axis_x_mg # Some(0)
              /\ ~HasTag(5) => Stored.acc_status # Some(0)

\* the bytes of the bench's frame, when its hex text has whole bytes
BenchBytes == HexDecodeString(BenchHex)

\* b is records laid end to end, each a tag byte, two length bytes (high byte
\* first) and as many value bytes as the length says
RECURSIVE CompleteRecords(_)
CompleteRecords(b) ==
    \/ b = <<>>
    \/ /\ Len(b) >= 3
       /\ Len(b) >= 3 + (256 * b[2] + b[3])
       /\ CompleteRecords(SubSeq(b, 4 + (256 * b[2] + b[3]), Len(b)))

\* C14: for a status or fix frame type and every byte buffer, the decoder
\* returns an error exactly when the buffer is not a concatenation of complete
\* TLV records; the empty buffer decodes without error.
C14_ErrorIffIncomplete ==
    decoded # Nil /\ (IsStatusType(frameType) \/ IsFixType(frameType)) /\ cut % 2 = 0 =>
        /\ decoded[1].err <=> ~CompleteRecords(BenchBytes)
        /\ decoded[1].err => decoded[1].auto = Nil
        /\ ~decoded[1].err => decoded[1].auto # Nil
        /\ BenchBytes = <<>> => ~decoded[1].err

\* a frame cut inside the length header of its last record was refused
C14_Witness ==
    /\ decoded # Nil /\ decoded[1].err
    /\ IsFixType(frameType)
    /\ Len(records) = 2 /\ cut = 2
    /\ records[2].val = <<>>

\* C15: a frame the decoder returns has at most one of Status and Fix set, and
\* the frame type code alone says which: the status code gives a Status and no
\* Fix, each fix code a Fix and no Status, whatever the payload bytes.
C15_OneReportByFrameType ==
    DecodedOk =>
        LET a == decoded[1].auto[1]
        IN  /\ a.Status = Nil \/ a.Fix = Nil
            /\ IsStatusType(frameType) => a.Status # Nil /\ a.Fix = Nil
            /\ IsFixType(frameType) => a.Fix # Nil /\ a.Status = Nil
            /\ IsStatusType(frameType) \/ IsFixType(frameType)

\* a frame of two records decoded under the fix code written in lower case
C15_Witness ==
    /\ DecodedOk
    /\ frameType = <<"3","0","b","1">>
    /\ Len(records) = 2
    /\ decoded[1].auto[1].Fix # Nil /\ decoded[1].auto[1].Status = Nil

NotApplicable == [auto |-> Nil, ok |-> FALSE, err |-> FALSE]

MalformedHex == [auto |-> Nil, ok |-> FALSE, err |-> TRUE]

OtherType(ft) == ~IsStatusType(ft) /\ ~IsFixType(ft)

\* C16 as stated: for a frame type code that is neither the status code nor a
\* fix code, the decoder returns NotApplicable and no error, for every payload.
C16_OtherTypeNotApplicable ==
    decoded # Nil /\ OtherType(frameType) => decoded[1] = NotApplicable

\* C16 as amended: for such a code the decoder returns NotApplicable and no
\* error for every payload that is valid hexadecimal; a payload that is not
\* (an odd number of digits) is a DecodeError, the hex text being decoded
\* before the code is looked at.
C16_OtherTypeNotApplicableIfHex ==
    decoded # Nil /\ OtherType(frameType) =>
        decoded[1] = IF HexDecodeOk(BenchHex) THEN NotApplicable ELSE MalformedHex

\* a frame of two records was handed in under an unsupported code
C16_Witness ==
    /\ decoded # Nil /\ decoded[1] = NotApplicable
    /\ frameType = Flag30A0
    /\ Len(records) = 2 /\ cut = 0

InsertAt(recs, pos, rec) == SubSeq(recs, 1, pos) \o <<rec>> \o SubSeq(recs, pos + 1, Len(recs))

\* records whose tag the schema of frame type ft does not know; the value of
\* one of them reads like a signal-quality record
UnrecognizedRecords(ft) ==
    UnknownRecords \cup {Rec(7, <<2, 0, 1, 20>>)}
        \cup (IF IsFixType(ft) THEN {Rec(5, <<1>>), Rec(6, <<56, 54>>)} ELSE {})

\* what the decoder returns for the records recs
DecodeRecords(recs) ==
    DecodeMKGW4Auto(frameType, HexEncode(Flatten(recs)), CHOOSE now \in NowValues : TRUE)

\* C17: a complete record with an unrecognized tag, inserted at any record
\* boundary of a well-formed status or fix frame, changes neither the decoded
\* report nor the timestamp and raises no error.
C17_SkipAndContinue ==
    DecodedOk /\ cut = 0 =>
        \A pos \in 0..Len(records) : \A u \in UnrecognizedRecords(frameType) :
            LET d == DecodeRecords(InsertAt(records, pos, u))
            IN  /\ ~d.err /\ d.ok /\ d.auto # Nil
                /\ d.auto[1].Status = decoded[1].auto[1].Status
                /\ d.auto[1].Fix = decoded[1].auto[1].Fix
                /\ d.auto[1].Timestamp = decoded[1].auto[1].Timestamp

\* a status frame that begins with an unknown record: the signal quality of
\* the record after it was decoded
C17_Witness ==
    /\ DecodedOk /\ cut = 0
    /\ IsStatusType(frameType)
    /\ Len(records) = 2
    /\ records[1] \in UnknownRecords /\ records[1].val # <<>>
    /\ records[2] = Rec(2, <<20>>)
    /\ decoded[1].auto[1].Status[1].CSQ = 20

\* the bytes a recognized tag needs for its field; 0 for a tag that takes any
\* length or that the schema does not know
Width(ft, tag) ==
    IF tag = 0 THEN 4
    ELSE IF IsStatusType(ft)
    THEN CASE tag = 2 -> 1 [] tag = 3 -> 2 [] tag = 4 -> 3 [] tag = 5 -> 1 [] OTHER -> 0
    ELSE CASE tag = 1 -> 1 [] tag = 2 -> 1 [] tag = 3 -> 8 [] tag = 4 -> 6 [] OTHER -> 0

IsShort(ft, rec) == Len(rec.val) < Width(ft, rec.tag)

\* the fields of a decoded frame that a tag stands for
FieldsOf(ft, auto, tag) ==
    IF tag = 0 THEN <<auto.Timestamp>>
    ELSE IF IsStatusType(ft)
    THEN LET st == auto.Status[1]
         IN  CASE tag = 2 -> <<st.CSQ>>
               [] tag = 3 -> <<st.BattmV>>
               [] tag = 4 -> <<st.AxisXmg, st.AxisYmg, st.AxisZmg>>
               [] tag = 5 -> <<st.AccStatus>>
    ELSE LET fx == auto.Fix[1]
         IN  CASE tag = 1 -> <<fx.FixMode>>
               [] tag = 2 -> <<fx.FixResult>>
               [] tag = 3 -> <<fx.Longitude, fx.Latitude>>
               [] tag = 4 -> <<fx.CI, fx.TacLac>>

\* the frame the decoder returns for no record at all: every field at its default
DefaultFrame == DecodeRecords(<<>>).auto[1]

\* the records of the bench that are wide enough for their field
RECURSIVE WithoutShort(_, _)
WithoutShort(ft, recs) ==
    IF recs = <<>> THEN <<>>
    ELSE IF IsShort(ft, Head(recs)) THEN WithoutShort(ft, Tail(recs))
    ELSE <<Head(recs)>> \o WithoutShort(ft, Tail(recs))

\* C18: a recognized tag whose declared length is shorter than its field needs
\* is never an error and sets nothing: the frame decodes as it does without
\* that record, and a field whose records are all too short is at its default.
C18_ShortTagLeavesDefault ==
    decoded # Nil /\ cut = 0 /\ ~OtherType(frameType) =>
        /\ DecodedOk
        /\ LET d == DecodeRecords(WithoutShort(frameType, records))
           IN  /\ decoded[1].auto[1].Status = d.auto[1].Status
               /\ decoded[1].auto[1].Fix = d.auto[1].Fix
               /\ decoded[1].auto[1].Timestamp = d.auto[1].Timestamp
        /\ \A k \in 1..Len(records) :
              ( /\ IsShort(frameType, records[k])
                /\ \A j \in 1..Len(records) :
                      records[j].tag = records[k].tag => IsShort(frameType, records[j]) )
              => FieldsOf(frameType, decoded[1].auto[1], records[k].tag)
                    = FieldsOf(frameType, DefaultFrame, records[k].tag)

\* a battery record of one byte, then an accel-status record: the battery is
\* at its default and the accel status was decoded
C18_Witness ==
    /\ DecodedOk /\ cut = 0
    /\ IsStatusType(frameType)
    /\ records = <<Rec(3, <<14>>), Rec(5, <<1>>)>>
    /\ decoded[1].auto[1].Status[1].BattmV = EmptyStatus.BattmV
    /\ decoded[1].auto[1].Status[1].AccStatus = 1

\* the name the decoder reports when a table has no entry: the empty string
Unknown == ""

ModeName(v) ==
    CASE v = 0 -> "Periodic" [] v = 1 -> "Motion" [] v = 2 -> "Downlink" [] OTHER -> Unknown

ResultName(v) == IF v \in 0..7 THEN fixResultNames[v + 1] ELSE Unknown

\* the positions of the records of tag t that carry at least n value bytes
Carrying(t, n) == {k \in 1..Len(records) : records[k].tag = t /\ Len(records[k].val) >= n}

\* the last of a non-empty set of positions
Last(ks) == CHOOSE k \in ks : \A j \in ks : j <= k

\* C19: in a fix frame the fix-mode byte 0, 1, 2 is reported as Periodic,
\* Motion, Downlink and every other byte as Unknown, the fix-result byte 0..7
\* as the outcome of that index and every other byte as Unknown; an
\* out-of-range byte is no error.
C19_FixTables ==
    decoded # Nil /\ cut = 0 /\ IsFixType(frameType) =>
        /\ DecodedOk
        /\ Carrying(1, 1) # {} =>
              decoded[1].auto[1].Fix[1].FixMode = ModeName(records[Last(Carrying(1, 1))].val[1])
        /\ Carrying(2, 1) # {} =>
              decoded[1].auto[1].Fix[1].FixResult = ResultName(records[Last(Carrying(2, 1))].val[1])

\* the two's-complement value of the 4 bytes of val that follow offset o, high
\* byte first: the high byte counts from -128 to 127
Signed32(val, o) ==
    (val[o + 1] - (IF val[o + 1] >= 128 THEN 256 ELSE 0)) * 16777216
        + val[o + 2] * 65536 + val[o + 3] * 256 + val[o + 4]

\* C20: for fix tag 0x03 with at least 8 value bytes the longitude is the
\* signed 32-bit two's-complement value of bytes 0..3, high byte first, and the
\* latitude that of bytes 4..7, negative when the high bit is set.  Longitude
\* and Latitude are held in units of 1e-7 degree.
C20_LonLatSigned ==
    DecodedOk /\ cut = 0 /\ IsFixType(frameType) /\ Carrying(3, 8) # {} =>
        LET val == records[Last(Carrying(3, 8))].val
            fx  == decoded[1].auto[1].Fix[1]
        IN  /\ fx.Longitude = Signed32(val, 0)
            /\ fx.Latitude = Signed32(val, 4)
            /\ val[1] >= 128 <=> fx.Longitude < 0
            /\ val[5] >= 128 <=> fx.Latitude < 0
            /\ fx.Longitude >= -2147483647 - 1 /\ fx.Longitude <= 2147483647
            /\ fx.Latitude >= -2147483647 - 1 /\ fx.Latitude <= 2147483647

\* longitude FF FF FF FF and latitude 80 00 00 00 were decoded as -1 and -2^31
C20_Witness ==
    /\ DecodedOk /\ cut = 0 /\ IsFixType(frameType)
    /\ records = <<Rec(3, <<255, 255, 255, 255, 128, 0, 0, 0>>)>>
    /\ decoded[1].auto[1].Fix[1].Longitude = -1
    /\ decoded[1].auto[1].Fix[1].Latitude = -2147483647 - 1

\* the int64 cell id is within the range of a signed 32-bit integer: its
\* high half is below 2^15
InInt32(w) == w.hi >= 0 /\ w.hi <= 32767 /\ w.lo >= 0 /\ w.lo <= 65535

\* C21: the cell id decoded from fix tag 0x04 lies in [-2^31, 2^31-1] for
\* every 4-byte big-endian input, and the tac/lac decoded from the next 2
\* bytes lies in [0, 65535].
C21_CellIdInInt32 ==
    DecodedOk /\ cut = 0 /\ IsFixType(frameType) /\ Carrying(4, 6) # {} =>
        /\ InInt32(decoded[1].auto[1].Fix[1].CI)
        /\ decoded[1].auto[1].Fix[1].TacLac \in 0..65535

\* the unsigned value of the first 4 bytes of val, high byte first
Unsigned32(val) == Wide(256 * val[1] + val[2], 256 * val[3] + val[4])

\* the wall clock the bench decodes with
BenchNow == CHOOSE now \in NowValues : TRUE

\* C22: after a successful decode the frame timestamp is never zero: it is the
\* unsigned big-endian value of the last timestamp record of 4 bytes or more
\* when that value is not zero, and the wall clock in seconds when there is no
\* such record or its value is zero.
C22_TimestampOrWallClock ==
    DecodedOk /\ cut = 0 =>
        LET ts == decoded[1].auto[1].Timestamp
        IN  /\ ts # Zero32
            /\ ts = IF Carrying(0, 4) # {} /\ Unsigned32(records[Last(Carrying(0, 4))].val) # Zero32
                    THEN Unsigned32(records[Last(Carrying(0, 4))].val)
                    ELSE BenchNow

\* a timestamp record of 100 s followed by one of value zero: the frame
\* carries the wall clock
C22_Witness ==
    /\ DecodedOk /\ cut = 0
    /\ records = <<Rec(0, <<0, 0, 0, 100>>), Rec(0, <<0, 0, 0, 0>>)>>
    /\ decoded[1].auto[1].Timestamp = BenchNow
    /\ decoded[1].auto[1].Timestamp # Wide(0, 100)

\* every character of s is a hexadecimal digit, in either case
AllHex(s) == \A k \in 1..Len(s) : InSeq(HexUpper, UpperCh(s[k]))

\* C23: for every text of exactly 12 hexadecimal characters ParseMAC12 returns
\* 6 bytes, byte i being the value of the pair at 2i, 2i+1; a text of any
\* other length is rejected, and a text of 12 characters is accepted only if
\* all of them are hexadecimal digits.
C23_ParseMAC12 ==
    macOut # Nil =>
        /\ Len(macText) = 12 /\ AllHex(macText) =>
              /\ ~macOut[1].err
              /\ Len(macOut[1].out) = 6
              /\ \A i \in 0..5 :
                    macOut[1].out[i + 1]
                        = 16 * HexVal(UpperCh(macText[2*i + 1])) + HexVal(UpperCh(macText[2*i + 2]))
        /\ Len(macText) # 12 => macOut[1].err
        /\ Len(macText) = 12 /\ ~macOut[1].err => AllHex(macText)

\* the handler of r has begun
Began(r) == pc[r] # "idle"

\* the bearer token of a request is empty or is not the configured one
BadBearer(i) == i.token = <<>> \/ i.token # authToken

\* r was answered in the header checks: with this status and text, and the
\* receipts were never asked about its key
RejectedWith(r, status, text) ==
    /\ Done(r)
    /\ resp[r] = Response(status, text)
    /\ idem[r] = "none"
    /\ log[r] = <<"respond">>

\* C24: handleAuto answers a non-POST request 405; then, only when a token is
\* configured, a request whose bearer token is empty or differs from it 401
\* (with no token configured no request is answered 401); then a request with
\* no X-Idempotency-Key 400.  None of these requests reaches the receipts:
\* every receipt is of the key of a request that passed the three checks.
C24_HeaderRejections ==
    /\ \A r \in Reqs :
          Began(r) =>
              /\ inp[r].method # "POST" => RejectedWith(r, 405, "method not allowed")
              /\ inp[r].method = "POST" /\ authToken # <<>> /\ BadBearer(inp[r]) =>
                    RejectedWith(r, 401, "unauthorized")
              /\ authToken = <<>> /\ resp[r] # Nil => resp[r][1].status # 401
              /\ ( /\ inp[r].method = "POST"
                   /\ authToken # <<>> => ~BadBearer(inp[r])
                   /\ inp[r].key = <<>> ) =>
                    RejectedWith(r, 400, "missing idempotency")
    /\ \A k \in receipts :
          \E r \in Reqs :
              /\ inp[r].key = k
              /\ idem[r] = "fresh"
              /\ inp[r].method = "POST"
              /\ authToken # <<>> => ~BadBearer(inp[r])

\* with no token configured, a request with a bearer token the service does
\* not know reserved its key and was answered 200, and a request without a key
\* was answered 400 and left no receipt
C24_Witness ==
    /\ authToken = <<>>
    /\ \E r \in Reqs :
          /\ inp[r].token = BadToken
          /\ idem[r] = "fresh"
          /\ Done(r) /\ resp[r][1].status = 200
    /\ \E q \in Reqs :
          /\ inp[q].key = <<>>
          /\ RejectedWith(q, 400, "missing idempotency")
    /\ Cardinality(receipts) = 1

\* the row the handler of r hands to UpsertAuto (lines 807-808)
RowOf(r) ==
    AutoRow(inp[r].body[1].GWHW, loc[r].macBytes, inp[r].body[1].Topic, loc[r].flag,
            loc[r].payload, loc[r].ts, loc[r].st, loc[r].fx)

\* r called UpsertAuto and the store answered without error
Inserted(r) == build = "upsert" /\ Done(r) /\ InLog(r, "persist") /\ mergeRes[r] = "ok"

HasNaturalKey(arows, row) == \E old \in arows : NaturalKey(old) = NaturalKey(row)

\* every row stays as it is, and a row is added only under a natural key that
\* no row has
InsertOnlyNewKeys ==
    /\ autoRows \subseteq autoRows'
    /\ \A new \in autoRows' \ autoRows : ~HasNaturalKey(autoRows, new)
    /\ Cardinality(autoRows') <= Cardinality(autoRows) + 1

\* C25: an insert under a natural key (gw_mac, flag, ts_device, payload_hex)
\* that a row already has is a no-op without error: that row keeps its
\* columns, even if the decoded fields differ, and no row is added; after any
\* sequence of inserts there is at most one row per natural key.
C25_InsertIdempotent ==
    /\ [](\A a \in autoRows : \A b \in autoRows : NaturalKey(a) = NaturalKey(b) => a = b)
    /\ [](\A r \in Reqs : Inserted(r) => HasNaturalKey(autoRows, RowOf(r)))
    /\ [][InsertOnlyNewKeys]_vars

\* two requests inserted the same natural key with different decoded fields,
\* neither got an error, and the table holds the row of the first alone
C25_Witness ==
    \E r1 \in Reqs : \E r2 \in Reqs :
        /\ Inserted(r1) /\ Inserted(r2)
        /\ r1 \in prior[r2]
        /\ resp[r2][1].status = 200
        /\ NaturalKey(RowOf(r1)) = NaturalKey(RowOf(r2))
        /\ RowOf(r1) # RowOf(r2)
        /\ autoRows = {RowOf(r1)}

\* the requests whose insert-if-absent of key k added the receipt
Reserving(k) == {r \in Reqs : inp[r].key = k /\ idem[r] = "fresh"}

\* C26: in every reachable state there is one receipt per reserved key, made by
\* the one insert that took effect for it, and the receipts only grow: no step
\* removes or replaces a receipt, so a key once reserved stays reserved.
C26_ReceiptsOnlyGrow ==
    /\ [](\A k \in receipts : Cardinality(Reserving(k)) = 1)
    /\ [](\A r \in Reqs : idem[r] \in {"fresh", "dup"} => inp[r].key \in receipts)
    /\ [][receipts \subseteq receipts' /\ Cardinality(receipts') <= Cardinality(receipts) + 1]_vars

\* two keys are reserved, the request of the first one has ended with an
\* error status, and its receipt is still there
C26_Witness ==
    \E r1 \in Reqs : \E r2 \in Reqs :
        /\ inp[r1].key # inp[r2].key
        /\ idem[r1] = "fresh" /\ idem[r2] = "fresh"
        /\ r1 \in prior[r2]
        /\ resp[r1][1].status # 200
        /\ receipts = {inp[r1].key, inp[r2].key}

\* the context of r is done (cancelled, deadline passed, or the handler
\* returned) and r had reserved its key before
DoneAfterReserve(r) == idem[r] = "fresh" /\ cancelled[r]

\* the message-row write r made is in the store
WriteKept(r) ==
    IF build = "publish"
    THEN LET id == inp[r].body[1].RowID[1]
         IN  rows[id] # Nil /\ rows[id][1].parser # "" /\ rows[id][1].parser_json # Nil
    ELSE HasNaturalKey(autoRows, RowOf(r))

\* C27: when the context of a request is done after its key was reserved,
\* nothing is rolled back: the receipt stays, the message-row write it made
\* stays, no other request acquires the key, and every other request of that
\* key that the receipts answer is told duplicate and answered as one.
C27_NoRollback ==
    \A r \in Reqs :
        DoneAfterReserve(r) =>
            /\ inp[r].key \in receipts
            /\ mergeRes[r] = "ok" => WriteKept(r)
            /\ \A q \in Reqs \ {r} :
                  inp[q].key = inp[r].key /\ idem[q] \in {"fresh", "dup"} =>
                      /\ idem[q] = "dup"
                      /\ Done(q) /\ resp[q] = DupResponse

\* a request merged its report, was cancelled during the publish wait, and a
\* later request of the same key was answered as a duplicate; the receipt and
\* the merged row are still there
C27_Witness ==
    \E r \in Reqs : \E q \in Reqs :
        /\ build = "publish"
        /\ idem[r] = "fresh" /\ mergeRes[r] = "ok" /\ pubRes[r] = "cancelled"
        /\ Done(r)
        /\ r \in prior[q]
        /\ inp[q].key = inp[r].key
        /\ Done(q) /\ resp[q] = DupResponse
        /\ inp[r].key \in receipts
        /\ WriteKept(r)

\* row id is of the gateway and device time the lookup asked for
SameGatewayAndTime(id) ==
    /\ rows[id] # Nil
    /\ rows[id][1].gw_mac = found[1].gwMAC
    /\ rows[id][1].ts_device = found[1].ts

\* row id holds the payload asked for in its payload_hex column
DirectHit(id) ==
    SameGatewayAndTime(id) /\ rows[id][1].payload_hex = Some(found[1].payloadHex)

\* row id has no payload_hex and holds the payload asked for in its raw JSON
JsonHit(id) ==
    /\ SameGatewayAndTime(id)
    /\ rows[id][1].payload_hex = Nil \/ rows[id][1].payload_hex = Some(<<>>)
    /\ rows[id][1].raw_json_payload_hex = Some(found[1].payloadHex)

LooksLikeJson(payloadHex) ==
    Len(payloadHex) >= 1 /\ (payloadHex[1] = "{" \/ payloadHex[1] = "[")

\* id is the highest of the row ids that satisfy hit
HighestDirect(id) == DirectHit(id) /\ \A other \in RowIds : DirectHit(other) => other <= id

HighestJson(id) == JsonHit(id) /\ \A other \in RowIds : JsonHit(other) => other <= id

\* C28: when the store answers its queries, FindGatewayRowID returns the id of
\* the direct lookup on (gw_mac, ts_device, payload_hex) whenever that lookup
\* hits, without sending the fallback query; the fallback on the payload_hex
\* of the raw JSON is tried exactly when the direct lookup missed and
\* payloadHex starts with '{' or '['; when neither finds a row the result is
\* ErrNoRows; of several matching rows the one with the highest id is returned.
C28_FindRowId ==
    found # Nil /\ ~found[1].fail1 /\ ~found[1].fail2 =>
        LET res  == found[1].res
            hit1 == \E id \in RowIds : DirectHit(id)
            hit2 == \E id \in RowIds : JsonHit(id)
            json == LooksLikeJson(found[1].payloadHex)
        IN  /\ hit1 => res.err = "none" /\ HighestDirect(res.id) /\ ~res.fallback
            /\ res.fallback <=> ~hit1 /\ json
            /\ ~hit1 /\ json /\ hit2 => res.err = "none" /\ HighestJson(res.id)
            /\ ~hit1 /\ ~(json /\ hit2) => res.err = "norows" /\ res.id = 0

\* rows 1 and 2 hold the JSON payload in their raw JSON only: the direct
\* lookup missed, the fallback was tried and returned row 2
C28_Witness ==
    /\ found # Nil /\ ~found[1].fail1 /\ ~found[1].fail2
    /\ found[1].payloadHex = PJson
    /\ ~DirectHit(1) /\ ~DirectHit(2)
    /\ JsonHit(1) /\ JsonHit(2)
    /\ found[1].res = FindResult(2, "none", TRUE)

\* the value of the last record of tag t that is at least n bytes long
LastValue(t, n) == records[Last(Carrying(t, n))].val

\* the fields of the status report are those of the last record of each tag
StatusLastWins(st) ==
    /\ Carrying(1, 0) # {} => st.NetworkType = LastValue(1, 0)
    /\ Carrying(2, 1) # {} => st.CSQ = LastValue(2, 1)[1]
    /\ Carrying(3, 2) # {} => st.BattmV = 256 * LastValue(3, 2)[1] + LastValue(3, 2)[2]
    /\ Carrying(4, 3) # {} => <<st.AxisXmg, st.AxisYmg, st.AxisZmg>> = SubSeq(LastValue(4, 3), 1, 3)
    /\ Carrying(5, 1) # {} => st.AccStatus = LastValue(5, 1)[1]

\* C29: when a recognized tag occurs more than once in a status frame the
\* later occurrence wins; of two 0x06 records the text of the second is the
\* result, and the ICCID is populated from the second occurrence.
C29_LastWinsAndIccid ==
    DecodedOk /\ cut = 0 /\ IsStatusType(frameType) =>
        LET st == decoded[1].auto[1].Status[1]
        IN  /\ StatusLastWins(st)
            /\ Carrying(0, 4) # {} /\ Unsigned32(LastValue(0, 4)) # Zero32 =>
                  decoded[1].auto[1].Timestamp = Unsigned32(LastValue(0, 4))
            /\ Carrying(6, 0) # {} => st.IMEI = LastValue(6, 0)
            /\ Cardinality(Carrying(6, 0)) >= 2 => st.ICCID = LastValue(6, 0)

\* the merge bench merged a status report with an IMEI and an ICCID into a row
\* that exists
MergedBothIds ==
    /\ merged # Nil
    /\ merged[1].res = "ok"
    /\ merged[1].st # Nil
    /\ merged[1].st[1].IMEI # <<>>
    /\ merged[1].st[1].ICCID # <<>>

\* C30: a merge by row id with a status report that carries a non-empty IMEI
\* and a non-empty ICCID stores the IMEI in the row's imei column and the ICCID
\* in its iccid column.
C30_ImeiAndIccidStored ==
    MergedBothIds =>
        /\ rows[merged[1].id][1].imei = Some(merged[1].st[1].IMEI)
        /\ rows[merged[1].id][1].iccid = Some(merged[1].st[1].ICCID)

\* r was answered 400 for its body: not JSON, a required field missing, or a
\* gw_mac that is not 12 characters
BodyRejected(r) == Done(r) /\ resp[r] = Response(400, "bad request")

\* C31: a request answered 400 for its body leaves the store as it was, the
\* receipts included, and publishes nothing: it made no row write, no receipt
\* holds its key unless another request reserved it, and a later request of
\* the same key with a valid body is processed as fresh.
C31_BadBodyLeavesNoTrace ==
    \A r \in Reqs :
        BodyRejected(r) =>
            /\ mergeRes[r] = "none"
            /\ out[r] = Nil
            /\ \A e \in published : e.by # r
            /\ (\A q \in Reqs \ {r} : inp[q].key = inp[r].key => idem[q] # "fresh")
                  => inp[r].key \notin receipts
            /\ \A q \in Reqs :
                  ( /\ r \in prior[q]
                    /\ inp[q].key = inp[r].key
                    /\ ValidBody(inp[q].body)
                    /\ idem[q] \in {"fresh", "dup"} ) => idem[q] = "fresh"

\* the frame of the envelope is of a supported type and decodes without error
FrameDecodes(env) ==
    /\ IsMKGW4Hex(env)
    /\ BareFlag(env.Flag) \in {Flag3004, Flag3089, Flag30B1}
    /\ ~DecodeMKGW4Auto(BareFlag(env.Flag), env.PayloadHex, BenchNow).err

\* the timestamp of the decoded frame, in seconds
FrameTimestamp(env) ==
    DecodeMKGW4Auto(BareFlag(env.Flag), env.PayloadHex, BenchNow).auto[1].Timestamp

\* the device time the claim gives for an envelope
ForwardedTs(env) ==
    IF env.DeviceTsMs # 0 THEN UnixMilli(env.DeviceTsMs)
    ELSE IF FrameDecodes(env) THEN Unix(FrameTimestamp(env))
    ELSE UnixMilli(0)

\* r alone has merged into the row its envelope names
OnlyMerger(r) ==
    /\ mergeRes[r] = "ok"
    /\ \A q \in Reqs \ {r} : mergeRes[q] = "ok" => inp[q].body[1].RowID # inp[r].body[1].RowID

\* C32: the device_ts_ms of the event handleAuto hands to the publisher and of
\* the parsed JSON it stores is the envelope's device_ts_ms when that is not
\* zero, the timestamp of the decoded frame when the envelope's is zero and a
\* frame was decoded, and the epoch value 0 otherwise.
C32_ForwardedDeviceTs ==
    \A r \in Reqs :
        build = "publish" /\ out[r] # Nil =>
            /\ out[r][1].device_ts_ms = ForwardedTs(inp[r].body[1])
            /\ OnlyMerger(r) =>
                  rows[inp[r].body[1].RowID[1]][1].parser_json[1].device_ts_ms
                      = ForwardedTs(inp[r].body[1])

\* an envelope with device_ts_ms 0 and a fix frame that carries the timestamp
\* 100 s was merged and handed to the publisher with the frame's 100 s, and an
\* envelope with device_ts_ms 5000 and the same frame kept its 5000 ms
C32_Witness ==
    \E r \in Reqs : \E q \in Reqs :
        /\ build = "publish"
        /\ inp[r].body # Nil /\ inp[r].body[1].DeviceTsMs = 0 /\ inp[r].body[1].PayloadHex = PFix
        /\ out[r] # Nil /\ out[r][1].device_ts_ms = Unix(Wide(0, 100))
        /\ OnlyMerger(r)
        /\ rows[1][1].parser_json[1].device_ts_ms = Unix(Wide(0, 100))
        /\ inp[q].body # Nil /\ inp[q].body[1].DeviceTsMs = 5000 /\ inp[q].body[1].PayloadHex = PFix
        /\ out[q] # Nil /\ out[q][1].device_ts_ms = UnixMilli(5000)
        /\ out[q][1].parsed_fix # Nil

\* the trace of the loop over the frame on the bench
BenchTrace == TlvTrace(IsFixType(frameType), BenchBytes, 0, <<>>, {})

\* C33: for every byte buffer the TLV loops of parseStatusTLV and parseFixTLV
\* terminate, the read index growing by at least 3 from one record to the
\* next, and read no index outside the buffer, also when a tag's declared
\* length exceeds the width of its field or the bytes that remain.
C33_TerminatesInBounds ==
    decoded # Nil /\ cut % 2 = 0 /\ (IsStatusType(frameType) \/ IsFixType(frameType)) =>
        LET t == BenchTrace
        IN  /\ \A idx \in t.reads : idx >= 0 /\ idx < Len(BenchBytes)
            /\ \A k \in 1..(Len(t.at) - 1) : t.at[k + 1] >= t.at[k] + 3
            /\ \A k \in 1..Len(t.at) : t.at[k] < Len(BenchBytes)
            /\ 3 * Len(t.at) <= Len(BenchBytes) + 2
            /\ t.err <=> decoded[1].err
            /\ ~t.err => t.i = Len(BenchBytes)

\* a fix frame whose lon/lat record declares 9 bytes, followed by a record cut
\* short of its last byte: 8 value bytes of the first were read and its ninth
\* was not, the second was refused after its header, and nothing was read
\* beyond the buffer
C33_Witness ==
    /\ decoded # Nil /\ IsFixType(frameType)
    /\ records = <<Rec(3, <<128, 0, 0, 1, 127, 255, 255, 255, 9>>), Rec(200, <<1, 2>>)>>
    /\ cut = 2
    /\ decoded[1].err
    /\ BenchTrace.at = <<0, 12>>
    /\ BenchTrace.reads = (0..14) \ {11}
    /\ Len(BenchBytes) = 16

====
